---- MODULE Spec2Model ----
(***************************************************************************)
(* A model of go-flagsfiller: FlagSetFiller.Fill walks the fields of a     *)
(* struct, registers one flag per terminal field (plus one per alias) in a *)
(* flag.FlagSet, applies tag defaults and environment values, and the      *)
(* caller then sets flags by name while parsing the command line.          *)
(*                                                                         *)
(* Text is a sequence of one-character strings, so that splitting,         *)
(* trimming and number parsing are computed as the code computes them.     *)
(* A field or flag name is a sequence of tokens: lower-case words and the  *)
(* separator "-"; two adjacent words stand for a camel-case boundary       *)
(* (<<"foo","bar">> is FooBar, <<"foo","-","bar">> is Foo-Bar).            *)
(***************************************************************************)
EXTENDS Integers, Sequences, FiniteSets, TLC

VARIABLES
    root,           \* name of the struct type of Fill's target
    opts,           \* fillerOptions of the FlagSetFiller
    env,            \* the process environment: name -> text
    mem,            \* the target's memory: field address -> value
    flagSet,        \* flag.FlagSet: the registered flags, by name
    extendedTypes,  \* the process-wide registry: type name -> handler
    pc,             \* "idle", "walking", "filled", "error", "panic"
    stack,          \* walkFields activations, innermost first
    err,            \* the error Fill returned, ErrNone when none
    calls,          \* every Value.Set made so far, in call order
    conc            \* two Fill calls running concurrently (SpecConc only)

vars == <<root, opts, env, mem, flagSet, extendedTypes, pc, stack, err, calls, conc>>

-----------------------------------------------------------------------------
(* Text helpers *)

DecDigits == <<"0", "1", "2", "3", "4", "5", "6", "7", "8", "9">>
HexDigits == DecDigits \o <<"a", "b", "c", "d", "e", "f">>

\* the value of digit c in the given base, -1 when c is no digit of it
DigitOf(c, base) ==
    IF \E i \in 1..base : HexDigits[i] = c
    THEN (CHOOSE i \in 1..base : HexDigits[i] = c) - 1
    ELSE -1

RECURSIVE ParseDigits(_, _, _)
\* the number written by the digits s in the given base, -1 on a non-digit
ParseDigits(s, base, acc) ==
    IF s = <<>> THEN acc
    ELSE IF DigitOf(Head(s), base) < 0 THEN -1
    ELSE ParseDigits(Tail(s), base, acc * base + DigitOf(Head(s), base))

\* the element of a one-element set
The(S) == CHOOSE x \in S : TRUE

Ok(v) == [ok |-> TRUE, v |-> v]
Fail(zero) == [ok |-> FALSE, v |-> zero]

\* unicode.IsSpace on the characters the model uses
IsSpace(c) == c \in {" ", "\n", "\t"}

RECURSIVE TrimLeft(_)
TrimLeft(s) == IF s # <<>> /\ IsSpace(Head(s)) THEN TrimLeft(Tail(s)) ELSE s

RECURSIVE TrimRight(_)
TrimRight(s) ==
    IF s # <<>> /\ IsSpace(s[Len(s)]) THEN TrimRight(SubSeq(s, 1, Len(s) - 1)) ELSE s

TrimSpace(s) == TrimRight(TrimLeft(s))

RECURSIVE SplitOn(_, _, _)
\* the pieces of s between the characters of delims (regexp.Split with n = -1
\* for a one-character class): cur is the piece being read
SplitOn(s, delims, cur) ==
    IF s = <<>> THEN <<cur>>
    ELSE IF Head(s) \in delims THEN <<cur>> \o SplitOn(Tail(s), delims, <<>>)
    ELSE SplitOn(Tail(s), delims, Append(cur, Head(s)))

RECURSIVE Flatten(_)
Flatten(ss) == IF ss = <<>> THEN <<>> ELSE Head(ss) \o Flatten(Tail(ss))

-----------------------------------------------------------------------------
(* Conversions of the standard library, as the code calls them *)

TrueTexts == {<<"1">>, <<"t">>, <<"T">>, <<"t", "r", "u", "e">>,
              <<"T", "R", "U", "E">>, <<"T", "r", "u", "e">>}
FalseTexts == {<<"0">>, <<"f">>, <<"F">>, <<"f", "a", "l", "s", "e">>,
               <<"F", "A", "L", "S", "E">>, <<"F", "a", "l", "s", "e">>}

ParseBool(s) ==
    IF s \in TrueTexts THEN Ok(TRUE)
    ELSE IF s \in FalseTexts THEN Ok(FALSE)
    ELSE Fail(FALSE)

\* strconv.Atoi: an optional sign and decimal digits
Atoi(s) ==
    LET signed == s # <<>> /\ Head(s) \in {"+", "-"}
        body == IF signed THEN Tail(s) ELSE s
        n == ParseDigits(body, 10, 0)
    IN  IF body = <<>> \/ n < 0 THEN Fail(0)
        ELSE Ok(IF signed /\ Head(s) = "-" THEN 0 - n ELSE n)

\* the base and the digits of an unsigned literal read with base 0
BaseOf(body) ==
    IF Len(body) >= 2 /\ body[1] = "0" /\ body[2] \in {"x", "X"}
        THEN [base |-> 16, digits |-> SubSeq(body, 3, Len(body))]
    ELSE IF Len(body) >= 2 /\ body[1] = "0" /\ body[2] \in {"b", "B"}
        THEN [base |-> 2, digits |-> SubSeq(body, 3, Len(body))]
    ELSE IF Len(body) >= 2 /\ body[1] = "0" /\ body[2] \in {"o", "O"}
        THEN [base |-> 8, digits |-> SubSeq(body, 3, Len(body))]
    ELSE IF Len(body) >= 2 /\ body[1] = "0"
        THEN [base |-> 8, digits |-> Tail(body)]
    ELSE [base |-> 10, digits |-> body]

\* strconv.ParseUint(s, 0, 64): no sign, the base taken from the prefix
ParseUintBase0(s) ==
    LET b == BaseOf(s)
        n == ParseDigits(b.digits, b.base, 0)
    IN  IF b.digits = <<>> \/ n < 0 THEN Fail(0) ELSE Ok(n)

\* strconv.ParseInt(s, 0, 64): an optional sign, then as ParseUint
ParseIntBase0(s) ==
    LET signed == s # <<>> /\ Head(s) \in {"+", "-"}
        r == ParseUintBase0(IF signed THEN Tail(s) ELSE s)
    IN  IF ~r.ok THEN Fail(0)
        ELSE Ok(IF signed /\ Head(s) = "-" THEN 0 - r.v ELSE r.v)

\* strconv.ParseInt(s, 10, 64)
ParseInt10(s) == Atoi(s)

\* strconv.ParseUint(s, 10, 64): decimal digits only
ParseUint10(s) ==
    LET n == ParseDigits(s, 10, 0)
    IN  IF s = <<>> \/ n < 0 THEN Fail(0) ELSE Ok(n)

\* a float64 is m / 10^d with d the number of fraction digits kept
RECURSIVE Pow10(_)
Pow10(n) == IF n = 0 THEN 1 ELSE 10 * Pow10(n - 1)

RECURSIVE StripZeros(_)
StripZeros(s) ==
    IF s # <<>> /\ s[Len(s)] = "0" THEN StripZeros(SubSeq(s, 1, Len(s) - 1)) ELSE s

FloatZero == [m |-> 0, d |-> 0]

\* strconv.ParseFloat(s, 64) on decimal literals: sign, digits, "." digits
ParseFloat(s) ==
    LET signed == s # <<>> /\ Head(s) \in {"+", "-"}
        body == IF signed THEN Tail(s) ELSE s
        parts == SplitOn(body, {"."}, <<>>)
        ip == parts[1]
        rawfp == IF Len(parts) = 2 THEN parts[2] ELSE <<>>
        fp == StripZeros(rawfp)
        iv == ParseDigits(ip, 10, 0)
        fv == ParseDigits(fp, 10, 0)
        mag == iv * Pow10(Len(fp)) + fv
    IN  IF Len(parts) > 2 \/ (ip = <<>> /\ rawfp = <<>>) \/ iv < 0 \/ fv < 0
        THEN Fail(FloatZero)
        ELSE Ok([m |-> IF signed /\ Head(s) = "-" THEN 0 - mag ELSE mag,
                 d |-> Len(fp)])

\* a time.Duration is counted in milliseconds (the units the model reads)
UnitMillis(u) ==
    IF u = <<"m", "s">> THEN 1
    ELSE IF u = <<"s">> THEN 1000
    ELSE IF u = <<"m">> THEN 60000
    ELSE IF u = <<"h">> THEN 3600000
    ELSE -1

RECURSIVE DigitRun(_)
\* the length of the run of decimal digits s starts with
DigitRun(s) ==
    IF s # <<>> /\ DigitOf(Head(s), 10) >= 0 THEN 1 + DigitRun(Tail(s)) ELSE 0

RECURSIVE UnitRun(_)
\* the length of the unit s starts with: up to the next digit or "."
UnitRun(s) ==
    IF s # <<>> /\ DigitOf(Head(s), 10) < 0 /\ Head(s) # "." THEN 1 + UnitRun(Tail(s)) ELSE 0

RECURSIVE DurationSegments(_, _)
\* the sum of the "<digits><unit>" segments of s added to acc, -1 on a bad one
DurationSegments(s, acc) ==
    IF s = <<>> THEN acc
    ELSE LET nd == DigitRun(s)
             rest == SubSeq(s, nd + 1, Len(s))
             nu == UnitRun(rest)
             unit == UnitMillis(SubSeq(rest, 1, nu))
         IN  IF nd = 0 \/ nu = 0 \/ unit < 0 THEN -1
             ELSE DurationSegments(SubSeq(rest, nu + 1, Len(rest)),
                                   acc + ParseDigits(SubSeq(s, 1, nd), 10, 0) * unit)

\* time.ParseDuration: [-+]?(digits unit)+, and "0" alone
ParseDuration(s) ==
    LET signed == s # <<>> /\ Head(s) \in {"+", "-"}
        body == IF signed THEN Tail(s) ELSE s
        n == DurationSegments(body, 0)
    IN  IF body = <<"0">> THEN Ok(0)
        ELSE IF body = <<>> \/ n < 0 THEN Fail(0)
        ELSE Ok(IF signed /\ Head(s) = "-" THEN 0 - n ELSE n)

-----------------------------------------------------------------------------
(* Converters of the registered extended types *)

RECURSIVE IndexAny(_, _)
\* strings.IndexAny, from 0; Len(s) when no character of cs occurs
IndexAny(s, cs) ==
    IF s = <<>> \/ Head(s) \in cs THEN 0 ELSE 1 + IndexAny(Tail(s), cs)

LevelNames == [DEBUG |-> {<<"D", "E", "B", "U", "G">>, <<"d", "e", "b", "u", "g">>},
               INFO |-> {<<"I", "N", "F", "O">>, <<"i", "n", "f", "o">>},
               WARN |-> {<<"W", "A", "R", "N">>, <<"w", "a", "r", "n">>},
               ERROR |-> {<<"E", "R", "R", "O", "R">>, <<"e", "r", "r", "o", "r">>}]

\* slog.Level.UnmarshalText: a level name and an optional signed offset;
\* slogLevelConverter returns slog.LevelInfo (0) with the error
slogLevelConverter(s) ==
    LET i == IndexAny(s, {"+", "-"})
        name == SubSeq(s, 1, i)
        off == IF i < Len(s) THEN Atoi(SubSeq(s, i + 1, Len(s))) ELSE Ok(0)
        base == IF name \in LevelNames.DEBUG THEN 0 - 4
                ELSE IF name \in LevelNames.INFO THEN 0
                ELSE IF name \in LevelNames.WARN THEN 4
                ELSE IF name \in LevelNames.ERROR THEN 8
                ELSE 99
    IN  IF ~off.ok \/ base = 99 THEN Fail(0) ELSE Ok(base + off.v)

\* an IPv4 address in dotted decimal: four fields 0..255 without leading zeros
IPZero == <<>>

ParseIPv4(s) ==
    LET parts == SplitOn(s, {"."}, <<>>)
        good(p) == /\ p # <<>>
                   /\ Len(p) <= 3
                   /\ ParseDigits(p, 10, 0) \in 0..255
                   /\ (Len(p) > 1 => Head(p) # "0")
    IN  IF Len(parts) = 4 /\ \A i \in 1..4 : good(parts[i])
        THEN Ok([i \in 1..4 |-> ParseDigits(parts[i], 10, 0)])
        ELSE Fail(IPZero)

\* net.ParseIP returns nil for text that is no address
ipConverter(s) == ParseIPv4(s)

IPNetZero == [ip |-> <<>>, mask |-> <<>>]

\* the number of leading one bits a mask of the given length has in its
\* i-th byte
MaskBits(bits, i) ==
    IF bits >= 8 * i THEN 8 ELSE IF bits <= 8 * (i - 1) THEN 0 ELSE bits - 8 * (i - 1)

\* net.ParseCIDR of an IPv4 prefix: the address, a slash and the decimal
\* length of the mask; the network is the address with the mask applied
ParseCIDR(s) ==
    LET parts == SplitOn(s, {"/"}, <<>>)
        bits == ParseDigits(parts[2], 10, 0)
    IN  IF Len(parts) = 2 /\ parts[2] # <<>> /\ ParseIPv4(parts[1]).ok
           /\ bits \in 0..32
        THEN Ok([ip |-> [i \in 1..4 |->
                           ParseIPv4(parts[1]).v[i]
                             - (ParseIPv4(parts[1]).v[i] % (2 ^ (8 - MaskBits(bits, i))))],
                 mask |-> [i \in 1..4 |-> 256 - 2 ^ (8 - MaskBits(bits, i))]])
        ELSE Fail(IPNetZero)

ipnetConverter(s) == ParseCIDR(s)

\* netip.Addr.UnmarshalText: empty text is the zero Addr, else ParseAddr;
\* the receiver is assigned the result (the zero Addr on an error)
AddrUnmarshalText(s) == IF s = <<>> THEN Ok(IPZero) ELSE ParseIPv4(s)

TimeZero == [year |-> 1, month |-> 1, day |-> 1, hour |-> 0, min |-> 0, sec |-> 0]

\* the layout chunks the model reads: their text, field, width and range
LayoutChunks == {
    [std |-> <<"2", "0", "0", "6">>, field |-> "year", lo |-> 0, hi |-> 9999],
    [std |-> <<"0", "1">>, field |-> "month", lo |-> 1, hi |-> 12],
    [std |-> <<"0", "2">>, field |-> "day", lo |-> 1, hi |-> 31],
    [std |-> <<"1", "5">>, field |-> "hour", lo |-> 0, hi |-> 23],
    [std |-> <<"0", "4">>, field |-> "min", lo |-> 0, hi |-> 59],
    [std |-> <<"0", "5">>, field |-> "sec", lo |-> 0, hi |-> 59]}

HasPrefix(s, p) == Len(s) >= Len(p) /\ SubSeq(s, 1, Len(p)) = p

DaysIn(month, year) ==
    IF month = 2
    THEN (IF year % 4 = 0 /\ (year % 100 # 0 \/ year % 400 = 0) THEN 29 ELSE 28)
    ELSE IF month \in {4, 6, 9, 11} THEN 30 ELSE 31

RECURSIVE TimeParseFrom(_, _, _)
\* time.Parse: the value text read against the layout, field by field;
\* t is the time read so far, the result is Fail after the first mismatch
TimeParseFrom(layout, s, t) ==
    IF layout = <<>>
    THEN (IF s = <<>> /\ t.day <= DaysIn(t.month, t.year) THEN Ok(t) ELSE Fail(TimeZero))
    ELSE IF \E c \in LayoutChunks : HasPrefix(layout, c.std)
    THEN LET c == CHOOSE c \in LayoutChunks : HasPrefix(layout, c.std)
             w == Len(c.std)
             n == IF Len(s) >= w THEN ParseDigits(SubSeq(s, 1, w), 10, 0) ELSE -1
         IN  IF n < c.lo \/ n > c.hi THEN Fail(TimeZero)
             ELSE TimeParseFrom(SubSeq(layout, w + 1, Len(layout)),
                                SubSeq(s, w + 1, Len(s)),
                                [t EXCEPT ![c.field] = n])
    ELSE IF s # <<>> /\ Head(s) = Head(layout)
    THEN TimeParseFrom(Tail(layout), Tail(s), t)
    ELSE Fail(TimeZero)

\* "2006-01-02 15:04:05"
DefaultTimeLayout ==
    <<"2", "0", "0", "6", "-", "0", "1", "-", "0", "2", " ",
      "1", "5", ":", "0", "4", ":", "0", "5">>

\* timeConverter: the layout tag when it is not empty, else DefaultTimeLayout
timeConverter(s, tag) ==
    LET layout == IF "layout" \in DOMAIN tag /\ tag["layout"] # <<>>
                  THEN tag["layout"] ELSE DefaultTimeLayout
    IN  TimeParseFrom(layout, s, TimeZero)

-----------------------------------------------------------------------------
(* The composite values: string lists and string maps *)

RECURSIVE TrimmedNonBlank(_)
\* the trimmed pieces of parts, the blank ones dropped
TrimmedNonBlank(parts) ==
    IF parts = <<>> THEN <<>>
    ELSE LET s == TrimSpace(Head(parts))
         IN  (IF s # <<>> THEN <<s>> ELSE <<>>) \o TrimmedNonBlank(Tail(parts))

\* a parseStringSlice that keeps the pieces as the split leaves them
parseStringSlice_Untrimmed(val, valueSplitPattern) ==
    IF valueSplitPattern = {} THEN <<val>>
    ELSE SplitOn(val, valueSplitPattern, <<>>)

\* parseStringSlice: valueSplitPattern is the set of delimiter characters of
\* the pattern, the empty set standing for the empty pattern
parseStringSlice(val, valueSplitPattern) ==
    IF valueSplitPattern = {} THEN <<val>>
    ELSE TrimmedNonBlank(SplitOn(val, valueSplitPattern, <<>>))

RECURSIVE MapOfPairs(_, _)
\* the pairs applied in order to the map result: the last occurrence wins
MapOfPairs(pairs, result) ==
    IF pairs = <<>> THEN result
    ELSE LET pair == TrimSpace(Head(pairs))
             i == IndexAny(pair, {"="})
             k == SubSeq(pair, 1, i)
             v == SubSeq(pair, i + 2, Len(pair))
         IN  IF pair = <<>> THEN MapOfPairs(Tail(pairs), result)
             ELSE MapOfPairs(Tail(pairs),
                     [x \in DOMAIN result \cup {k} |-> IF x = k THEN v ELSE result[x]])

EmptyMap == [x \in {} |-> <<>>]

\* parseStringToStringMap: split on "\n" and ",", each piece on its first "="
parseStringToStringMap(val) == MapOfPairs(SplitOn(val, {"\n", ","}, <<>>), EmptyMap)

-----------------------------------------------------------------------------
(* Names and renamers *)

Separators == {"-", "_", " ", "."}

RECURSIVE Delimited(_, _)
\* strcase.ToDelimited on a token sequence: every separator becomes the
\* delimiter d and a camel-case boundary (two adjacent words) gets one
Delimited(name, d) ==
    IF name = <<>> THEN <<>>
    ELSE LET h == Head(name)
             t == Tail(name)
         IN  IF h \in Separators THEN <<d>> \o Delimited(t, d)
             ELSE IF t # <<>> /\ Head(t) \notin Separators
                  THEN <<h, d>> \o Delimited(t, d)
                  ELSE <<h>> \o Delimited(t, d)

\* KebabRenamer, the DefaultFieldRenamer
KebabRenamer(name) == Delimited(name, "-")

\* ScreamingSnakeRenamer
ScreamingSnakeRenamer(name) == Delimited(name, "_")

\* PrefixRenamer
PrefixRenamer(prefix, name) == prefix \o name

\* WithEnv(prefix): CompositeRenamer(PrefixRenamer(prefix), ScreamingSnakeRenamer())
EnvRenamer(prefix, name) == ScreamingSnakeRenamer(PrefixRenamer(prefix, name))

\* fillerOptions.renameLongName with no WithFieldRenamer option
renameLongName(name) == KebabRenamer(name)

-----------------------------------------------------------------------------
(* Types: a kind (reflect.Kind), a type name (getTypeName) and, for a       *)
(* pointer, the kind of the element                                        *)

Ty(kind, name) == [kind |-> kind, name |-> name, elem |-> ""]
PtrTo(t) == [kind |-> "ptr", name |-> t.name, elem |-> t.kind]

StringT == Ty("string", "string")
BoolT == Ty("bool", "bool")
Float64T == Ty("float64", "float64")
IntT == Ty("int", "int")
Int64T == Ty("int64", "int64")
UintT == Ty("uint", "uint")
Uint64T == Ty("uint64", "uint64")
Int32T == Ty("int32", "int32")
DurationT == Ty("int64", "time.Duration")
StringSliceT == Ty("slice", "[]string")
IntSliceT == Ty("slice", "[]int")
StringMapT == Ty("map", "map[string]string")
LevelT == Ty("int", "slog.Level")
IPT == Ty("slice", "net.IP")
TimeT == Ty("struct", "time.Time")
AddrT == Ty("struct", "netip.Addr")
IPNetT == Ty("struct", "net.IPNet")
IPMaskT == Ty("slice", "net.IPMask")
MyStringT == Ty("string", "main.MyString")
MyBoolT == Ty("bool", "main.MyBool")
CustomIntT == Ty("int", "main.CustomInt")
CustomDurationT == Ty("int64", "main.CustomDuration")
CustomStringSliceT == Ty("slice", "main.CustomStringSlice")
CustomStringMapT == Ty("map", "main.CustomStringMap")

\* the kinds flag.FlagSet has a Value of its own for
ScalarTypes == {StringT, BoolT, Float64T, IntT, Int64T, UintT, Uint64T, DurationT}

\* the types whose pointer implements encoding.TextUnmarshaler
TextUnmarshalers == {"netip.Addr", "time.Time", "slog.Level", "net.IP"}

\* the extendedTypes map after the package's init functions
InitialRegistry ==
    [n \in {"time.Time", "net.IP", "net.IPNet", "slog.Level"} |-> "simpleType"]

\* a uint or uint64 value is carry * 2^64 + off
ToUint(n) == [carry |-> IF n < 0 THEN 1 ELSE 0, off |-> n]

NilMap == [nil |-> TRUE, kv |-> EmptyMap]
MapOf(kv) == [nil |-> FALSE, kv |-> kv]

\* the zero value of a type
ZeroOf(t) ==
    IF t.kind = "ptr" THEN 0
    ELSE IF t.name = "time.Time" THEN TimeZero
    ELSE IF t.name = "netip.Addr" THEN IPZero
    ELSE IF t.name = "net.IPNet" THEN IPNetZero
    ELSE IF t.kind = "string" THEN <<>>
    ELSE IF t.kind = "bool" THEN FALSE
    ELSE IF t.kind = "float64" THEN FloatZero
    ELSE IF t.kind \in {"uint", "uint64"} THEN ToUint(0)
    ELSE IF t.kind = "slice" THEN <<>>
    ELSE IF t.kind = "map" THEN NilMap
    ELSE 0

EmptyTag == [x \in {} |-> <<>>]
TextTrue == <<"t", "r", "u", "e">>

Field(name, type, exported, tag) ==
    [name |-> name, type |-> type, exported |-> exported, tag |-> tag]

-----------------------------------------------------------------------------
(* flag.FlagSet: the Values and their Set methods *)

ErrNone == [kind |-> "none", addr |-> <<>>, envName |-> <<>>]
ErrDefault(addr) == [kind |-> "default", addr |-> addr, envName |-> <<>>]
ErrEnv(addr, envName) == [kind |-> "env", addr |-> addr, envName |-> envName]
ErrFrom(what) == [kind |-> what, addr |-> <<>>, envName |-> <<>>]
\* "can only fill from struct pointer, but it was <kind>"
ErrFill(kind) == [kind |-> "fill", addr |-> <<kind>>, envName |-> <<>>]

\* a registered flag: the field its Value points at and the field's kind, the
\* kind of Value, the converter it holds, the tag (for the layout), the
\* strSliceVar settings, the environment name written into its usage and the
\* default it was given
Flag(addr, t, vk, conv, tag, override, pattern, envName, def) ==
    [addr |-> addr, kind |-> t.kind, vk |-> vk, conv |-> conv, tag |-> tag,
     override |-> override, pattern |-> pattern, envName |-> envName, def |-> def]

\* the converters processCustom is given and the registered ConvertFuncs
Converter(conv, s, tag) ==
    IF conv = "string" THEN Ok(s)
    ELSE IF conv = "bool" THEN ParseBool(s)
    ELSE IF conv = "float64" THEN ParseFloat(s)
    ELSE IF conv = "duration" THEN ParseDuration(s)
    ELSE IF conv = "int64" THEN ParseInt10(s)
    ELSE IF conv = "int" THEN Atoi(s)
    ELSE IF conv = "uint" THEN Atoi(s)
    ELSE IF conv = "uint64" THEN ParseUint10(s)
    ELSE IF conv = "time.Time" THEN timeConverter(s, tag)
    ELSE IF conv = "net.IP" THEN ipConverter(s)
    ELSE IF conv = "net.IPNet" THEN ipnetConverter(s)
    ELSE IF conv = "slog.Level" THEN slogLevelConverter(s)
    ELSE IF conv = "netip.Addr" THEN AddrUnmarshalText(s)
    ELSE Fail(0)

\* textUnmarshalerType.Set calls UnmarshalText on the field itself:
\* slog.Level's assigns nothing when it fails (netip.Addr's and the
\* converters of simpleType assign what they return with the error)
KeepsOnError(vk, conv, r) == vk = "textUnmarshalerType" /\ conv = "slog.Level" /\ ~r.ok

\* the converter functions the process* methods hand to processCustom
CustomConverter(conv, s, pattern) ==
    IF conv = "stringSlice" THEN Ok(parseStringSlice(s, pattern))
    ELSE IF conv = "stringMap" THEN Ok(MapOf(parseStringToStringMap(s)))
    ELSE Converter(conv, s, EmptyTag)

\* reflect.Value.Convert to the field's type: the value as a field of that
\* kind holds it
ConvertValue(kind, v) == IF kind \in {"uint", "uint64"} THEN ToUint(v) ELSE v

\* the Values of package flag: each parses, assigns what the parser
\* returned (the zero value on a syntax error) and then reports the error
StdValueSet(vk, s) ==
    IF vk = "string" THEN Ok(s)
    ELSE IF vk = "bool" THEN ParseBool(s)
    ELSE IF vk = "float64" THEN ParseFloat(s)
    ELSE IF vk = "duration" THEN ParseDuration(s)
    ELSE IF vk \in {"int", "int64"} THEN ParseIntBase0(s)
    ELSE LET r == ParseUintBase0(s) IN [ok |-> r.ok, v |-> ToUint(r.v)]

\* a strSliceVar.Set that always replaces the list
strSliceVarSet_Replacing(f, old, val) == parseStringSlice(val, f.pattern)

\* a strSliceVar.Set that always appends to the list
strSliceVarSet_Appending(f, old, val) == old \o parseStringSlice(val, f.pattern)

\* strSliceVar.Set: the parts replace the list or are appended to it
strSliceVarSet(f, old, val) ==
    LET parts == parseStringSlice(val, f.pattern)
    IN  IF f.override THEN parts ELSE old \o parts

\* a strToStrMapVar.Set that replaces the map by the entries of val
strToStrMapVarSet_Replacing(old, val) == MapOf(parseStringToStringMap(val))

\* strToStrMapVar.Set: the entries of val are stored into the map
strToStrMapVarSet(old, val) ==
    LET content == parseStringToStringMap(val)
    IN  MapOf([k \in DOMAIN old.kv \cup DOMAIN content |->
                 IF k \in DOMAIN content THEN content[k] ELSE old.kv[k]])

\* Value.Set of the flag f with the text val on the memory m:
\* the memory after it, whether it returned no error, whether it panicked
ValueSet(f, m, val) ==
    IF f.vk = "strSlice"
    THEN [mem |-> [m EXCEPT ![f.addr] = strSliceVarSet(f, m[f.addr], val)],
          ok |-> TRUE, panic |-> FALSE]
    ELSE IF f.vk = "strMap"
    THEN (IF m[f.addr].nil /\ parseStringToStringMap(val) # EmptyMap
          THEN [mem |-> m, ok |-> FALSE, panic |-> TRUE]
          ELSE IF m[f.addr].nil THEN [mem |-> m, ok |-> TRUE, panic |-> FALSE]
          ELSE [mem |-> [m EXCEPT ![f.addr] = strToStrMapVarSet(m[f.addr], val)],
                ok |-> TRUE, panic |-> FALSE])
    ELSE IF f.vk \in {"simpleType", "textUnmarshalerType"}
    THEN The({[mem |-> IF KeepsOnError(f.vk, f.conv, r) THEN m
                       ELSE [m EXCEPT ![f.addr] = r.v],
               ok |-> r.ok, panic |-> FALSE] :
                r \in {Converter(f.conv, val, f.tag)}})
    ELSE IF f.vk = "func"
    THEN LET r == CustomConverter(f.conv, val, f.pattern)
         IN  [mem |-> IF r.ok THEN [m EXCEPT ![f.addr] = ConvertValue(f.kind, r.v)]
                      ELSE m,
              ok |-> r.ok, panic |-> FALSE]
    ELSE LET r == StdValueSet(f.vk, val)
         IN  [mem |-> [m EXCEPT ![f.addr] = r.v], ok |-> r.ok, panic |-> FALSE]

\* Value.String of the flag f: whether it prints the value the field holds,
\* and the value it prints.  The Values of package flag, strSliceVar,
\* strToStrMapVar, simpleType and textUnmarshalerType read the field; the
\* funcValue behind flagSet.Func prints "" whatever the field holds
ValueString(f, m) ==
    IF f.vk = "func" THEN [field |-> FALSE, v |-> <<>>]
    ELSE [field |-> TRUE, v |-> m[f.addr]]

RECURSIVE Register(_, _, _)
\* FlagSet.Var for each of the names in turn: a name already defined panics
\* ("flag redefined") and leaves the earlier ones registered
Register(fs, names, flag) ==
    IF names = <<>> THEN [flagSet |-> fs, panic |-> FALSE]
    ELSE IF Head(names) \in DOMAIN fs THEN [flagSet |-> fs, panic |-> TRUE]
    ELSE Register([n \in DOMAIN fs \cup {Head(names)} |->
                     IF n = Head(names) THEN flag ELSE fs[n]],
                  Tail(names), flag)

\* the primary name followed by strings.Split(aliases, ",")
FlagNames(renamed, aliases) ==
    <<renamed>> \o (IF aliases # <<>> THEN SplitOn(aliases, {","}, <<>>) ELSE <<>>)

-----------------------------------------------------------------------------
(* FlagSetFiller.processField and the process* methods it dispatches to.   *)
(* Each returns the flag set, memory, registry and Set calls it leaves and  *)
(* how it ended: "ok", "error" (with the error) or "panic".                *)

Res(fs, m, reg, cl, out, e) ==
    [flagSet |-> fs, mem |-> m, reg |-> reg, calls |-> cl, out |-> out, err |-> e]

TagGet(tag, key) == IF key \in DOMAIN tag THEN tag[key] ELSE <<>>

\* the kind of value a converter returns
ResultKind(conv) ==
    IF conv \in {"duration", "int64"} THEN "int64"
    ELSE IF conv \in {"int", "uint"} THEN "int"
    ELSE IF conv = "stringSlice" THEN "slice"
    ELSE IF conv = "stringMap" THEN "map"
    ELSE conv

NumericKinds == {"int", "int32", "int64", "uint", "uint64"}

\* whether reflect.Value.Convert takes the converter's result to type t
Convertible(conv, t) ==
    \/ ResultKind(conv) \in NumericKinds /\ t.kind \in NumericKinds
    \/ ResultKind(conv) = t.kind /\ t.kind \in {"string", "bool", "float64"}
    \/ conv = "stringSlice" /\ t.kind = "slice" /\ t.name # "[]int"
    \/ conv = "stringMap" /\ t.kind = "map"

\* processCustom: the default, when tagged, is converted and stored, then
\* the primary name and the aliases are registered with flagSet.Func
processCustom(conv, fs, m, reg, cl, addr, t, hasDefaultTag, tagDefault, renamed, envName, aliases, tag) ==
    LET r == CustomConverter(conv, tagDefault, opts.valueSplitPattern)
        m1 == IF hasDefaultTag THEN [m EXCEPT ![addr] = ConvertValue(t.kind, r.v)] ELSE m
        flag == Flag(addr, t, "func", conv, tag, FALSE, opts.valueSplitPattern,
                     envName, m1[addr])
        g == Register(fs, FlagNames(renamed, aliases), flag)
    IN  IF hasDefaultTag /\ ~r.ok THEN Res(fs, m, reg, cl, "error", ErrDefault(addr))
        ELSE IF hasDefaultTag /\ ~Convertible(conv, t)
             THEN Res(fs, m, reg, cl, "panic", ErrFrom("convert"))
        ELSE Res(g.flagSet, m1, reg, cl,
                 IF g.panic THEN "panic" ELSE "ok",
                 IF g.panic THEN ErrFrom("redefined") ELSE ErrNone)

\* the name of the type the type assertion of process<vk> accepts
ExactName(vk) ==
    IF vk = "duration" THEN "time.Duration"
    ELSE IF vk = "stringSlice" THEN "[]string"
    ELSE IF vk = "stringMap" THEN "map[string]string"
    ELSE vk

\* the default tag as process<vk> parses it; processUint parses with
\* strconv.Atoi and converts the int with uint(asInt)
DefaultParse(vk, tagDefault) ==
    LET r == Converter(vk, tagDefault, EmptyTag)
    IN  IF vk \in {"uint", "uint64"} THEN [ok |-> r.ok, v |-> ToUint(r.v)] ELSE r

\* processString, processBool, processFloat64, processDuration, processInt64,
\* processInt, processUint64 and processUint: parse the default tag or take
\* the field's value, then flagSet.<Kind>Var for the name and each alias,
\* which assigns the default to the field
processScalar(vk, fs, m, reg, cl, addr, t, hasDefaultTag, tagDefault, renamed, envName, aliases, tag) ==
    IF t.name # ExactName(vk)
    THEN processCustom(vk, fs, m, reg, cl, addr, t, hasDefaultTag, tagDefault,
                       renamed, envName, aliases, tag)
    ELSE LET r == DefaultParse(vk, tagDefault)
             defaultVal == IF hasDefaultTag THEN r.v ELSE m[addr]
             flag == Flag(addr, t, vk, vk, tag, FALSE, {}, envName, defaultVal)
             g == Register(fs, FlagNames(renamed, aliases), flag)
         IN  IF hasDefaultTag /\ ~r.ok
             THEN Res(fs, m, reg, cl, "error", ErrDefault(addr))
             ELSE Res(g.flagSet, [m EXCEPT ![addr] = defaultVal], reg, cl,
                      IF g.panic THEN "panic" ELSE "ok",
                      IF g.panic THEN ErrFrom("redefined") ELSE ErrNone)

\* processStringSlice: the split default tag replaces the field's list
processStringSlice(fs, m, reg, cl, addr, t, hasDefaultTag, tagDefault, renamed, envName, override, aliases, tag) ==
    IF t.name # "[]string"
    THEN processCustom("stringSlice", fs, m, reg, cl, addr, t, hasDefaultTag,
                       tagDefault, renamed, envName, aliases, tag)
    ELSE LET m1 == IF hasDefaultTag
                   THEN [m EXCEPT ![addr] =
                           parseStringSlice(tagDefault, opts.valueSplitPattern)]
                   ELSE m
             flag == Flag(addr, t, "strSlice", "stringSlice", tag, override,
                          opts.valueSplitPattern, envName, m1[addr])
             g == Register(fs, FlagNames(renamed, aliases), flag)
         IN  Res(g.flagSet, m1, reg, cl,
                 IF g.panic THEN "panic" ELSE "ok",
                 IF g.panic THEN ErrFrom("redefined") ELSE ErrNone)

\* processStringToStringMap without the make of a nil map
processStringToStringMap_KeepsNil(fs, m, reg, cl, addr, t, hasDefaultTag, tagDefault, renamed, envName, aliases, tag) ==
    IF t.name # "map[string]string"
    THEN processCustom("stringMap", fs, m, reg, cl, addr, t, hasDefaultTag,
                       tagDefault, renamed, envName, aliases, tag)
    ELSE LET val == IF hasDefaultTag THEN MapOf(parseStringToStringMap(tagDefault))
                    ELSE m[addr]
             flag == Flag(addr, t, "strMap", "stringMap", tag, FALSE, {}, envName, val)
             g == Register(fs, FlagNames(renamed, aliases), flag)
         IN  Res(g.flagSet, [m EXCEPT ![addr] = val], reg, cl,
                 IF g.panic THEN "panic" ELSE "ok",
                 IF g.panic THEN ErrFrom("redefined") ELSE ErrNone)

\* processStringToStringMap: the parsed default tag replaces the field's map,
\* a nil map without default tag is made
processStringToStringMap(fs, m, reg, cl, addr, t, hasDefaultTag, tagDefault, renamed, envName, aliases, tag) ==
    IF t.name # "map[string]string"
    THEN processCustom("stringMap", fs, m, reg, cl, addr, t, hasDefaultTag,
                       tagDefault, renamed, envName, aliases, tag)
    ELSE LET val == IF hasDefaultTag THEN MapOf(parseStringToStringMap(tagDefault))
                    ELSE IF m[addr].nil THEN MapOf(EmptyMap)
                    ELSE m[addr]
             flag == Flag(addr, t, "strMap", "stringMap", tag, FALSE, {}, envName, val)
             g == Register(fs, FlagNames(renamed, aliases), flag)
         IN  Res(g.flagSet, [m EXCEPT ![addr] = val], reg, cl,
                 IF g.panic THEN "panic" ELSE "ok",
                 IF g.panic THEN ErrFrom("redefined") ELSE ErrNone)

\* processGeneral (simpleType.Process) and textUnmarshalerType.process: the
\* converted default is assigned to the field together with the error, and
\* only a nil error lets the flags be registered
processGeneral(vk, fs, m, reg, cl, addr, t, hasDefaultTag, tagDefault, renamed, envName, aliases, tag) ==
    The({The({IF hasDefaultTag /\ ~r.ok THEN Res(fs, m1, reg, cl, "error", ErrDefault(addr))
              ELSE The({Res(g.flagSet, m1, reg, cl,
                            IF g.panic THEN "panic" ELSE "ok",
                            IF g.panic THEN ErrFrom("redefined") ELSE ErrNone) :
                          g \in {Register(fs, FlagNames(renamed, aliases),
                                          Flag(addr, t, vk, t.name, tag, FALSE, {},
                                               envName, m1[addr]))}}) :
                m1 \in {IF hasDefaultTag /\ ~KeepsOnError(vk, t.name, r)
                        THEN [m EXCEPT ![addr] = r.v] ELSE m}}) :
           r \in {Converter(t.name, tagDefault, tag)}})

\* isSupportedStruct: the registry after the call (a text-unmarshaling type
\* without an entry is registered) and its answer
\* extendedTypes[getTypeName(t)] = handler
Registered(reg, tn, handler) ==
    [n \in DOMAIN reg \cup {tn} |-> IF n = tn THEN handler ELSE reg[n]]

\* a probe that finds no type supported
isSupportedStruct_Never(reg, t) == [reg |-> reg, ok |-> FALSE]

\* a probe that registers the text unmarshaling of a type whether or not
\* the type has an entry
isSupportedStruct_Rediscovers(reg, t) ==
    IF t.name \in TextUnmarshalers
    THEN [reg |-> Registered(reg, t.name, "textUnmarshalerType"), ok |-> TRUE]
    ELSE [reg |-> reg, ok |-> t.name \in DOMAIN reg]

isSupportedStruct(reg, t) ==
    IF t.name \in DOMAIN reg THEN [reg |-> reg, ok |-> TRUE]
    ELSE IF t.name \in TextUnmarshalers
    THEN [reg |-> Registered(reg, t.name, "textUnmarshalerType"), ok |-> TRUE]
    ELSE [reg |-> reg, ok |-> FALSE]

\* the environment name of a field: the env tag, else the renamers of
\* WithEnv applied to the structural path, else none
\* an environment name that heeds the env tag only under WithEnv
ResolveEnvName_OnlyWhenActive(tag, name) ==
    IF ~opts.envRenamer THEN <<>>
    ELSE IF "env" \in DOMAIN tag THEN tag["env"]
    ELSE EnvRenamer(opts.envPrefix, name)

ResolveEnvName(tag, name) ==
    IF "env" \in DOMAIN tag THEN tag["env"]
    ELSE IF opts.envRenamer THEN EnvRenamer(opts.envPrefix, name)
    ELSE <<>>

\* the flag name of a field: the flag tag, else the renamed structural path
ResolveFlagName(tag, name) ==
    IF "flag" \in DOMAIN tag THEN tag["flag"] ELSE renameLongName(name)

\* no tag is taken as the signal to skip the field
SkipsField_Never(tag) == FALSE

\* the tag flag:"", the signal to skip the field
SkipsField(tag) == "flag" \in DOMAIN tag /\ tag["flag"] = <<>>

\* the override-value tag as processField reads it
OverrideValue(tag) ==
    "override-value" \in DOMAIN tag
        /\ ParseBool(tag["override-value"]).ok /\ ParseBool(tag["override-value"]).v

\* the switch of processField on the kind, the exact type and the type hint
\* a dispatch that consults the duration hint after the integer kinds
Dispatch_KindsFirst(fs, m, reg, cl, addr, t, hasDefaultTag, tagDefault, renamed, envName, aliases, tag) ==
    LET fieldType == TagGet(tag, "type")
    IN  IF t.kind \in {"string", "bool", "float64"}
        THEN processScalar(t.kind, fs, m, reg, cl, addr, t, hasDefaultTag,
                           tagDefault, renamed, envName, aliases, tag)
        ELSE IF t.name = "time.Duration"
        THEN processScalar("duration", fs, m, reg, cl, addr, t, hasDefaultTag,
                           tagDefault, renamed, envName, aliases, tag)
        ELSE IF t.kind \in {"int64", "int", "uint64", "uint"}
        THEN processScalar(t.kind, fs, m, reg, cl, addr, t, hasDefaultTag,
                           tagDefault, renamed, envName, aliases, tag)
        ELSE IF fieldType = <<"duration">>
        THEN processScalar("duration", fs, m, reg, cl, addr, t, hasDefaultTag,
                           tagDefault, renamed, envName, aliases, tag)
        ELSE IF t.name = "[]string" \/ fieldType = <<"stringSlice">>
        THEN processStringSlice(fs, m, reg, cl, addr, t, hasDefaultTag, tagDefault,
                                renamed, envName, OverrideValue(tag), aliases, tag)
        ELSE IF t.name = "map[string]string" \/ fieldType = <<"stringMap">>
        THEN processStringToStringMap(fs, m, reg, cl, addr, t, hasDefaultTag,
                                      tagDefault, renamed, envName, aliases, tag)
        ELSE Res(fs, m, reg, cl, "ok", ErrNone)

\* the switch of processField over the kind, the type and the type tag
Dispatch(fs, m, reg, cl, addr, t, hasDefaultTag, tagDefault, renamed, envName, aliases, tag) ==
    LET fieldType == TagGet(tag, "type")
    IN  IF t.kind \in {"string", "bool", "float64"}
        THEN processScalar(t.kind, fs, m, reg, cl, addr, t, hasDefaultTag,
                           tagDefault, renamed, envName, aliases, tag)
        ELSE IF t.name = "time.Duration" \/ fieldType = <<"duration">>
        THEN processScalar("duration", fs, m, reg, cl, addr, t, hasDefaultTag,
                           tagDefault, renamed, envName, aliases, tag)
        ELSE IF t.kind \in {"int64", "int", "uint64", "uint"}
        THEN processScalar(t.kind, fs, m, reg, cl, addr, t, hasDefaultTag,
                           tagDefault, renamed, envName, aliases, tag)
        ELSE IF t.name = "[]string" \/ fieldType = <<"stringSlice">>
        THEN processStringSlice(fs, m, reg, cl, addr, t, hasDefaultTag, tagDefault,
                                renamed, envName, OverrideValue(tag), aliases, tag)
        ELSE IF t.name = "map[string]string" \/ fieldType = <<"stringMap">>
        THEN processStringToStringMap(fs, m, reg, cl, addr, t, hasDefaultTag,
                                      tagDefault, renamed, envName, aliases, tag)
        ELSE Res(fs, m, reg, cl, "ok", ErrNone)

\* processField without its last step: the environment is never applied
SetFromEnv_Never(r, addr, renamed, envName) == r

\* the end of processField: the value of the environment variable, when the
\* field has an environment name and the variable exists, is Set on the flag
\* found under the primary name (a nil *Flag when none is registered)
\* the last step of processField when it does not heed NoSetFromEnv
SetFromEnv_Always(r, addr, renamed, envName) ==
    IF envName = <<>> \/ envName \notin DOMAIN env THEN r
    ELSE IF renamed \notin DOMAIN r.flagSet
    THEN Res(r.flagSet, r.mem, r.reg, r.calls, "panic", ErrFrom("nil flag"))
    ELSE LET v == ValueSet(r.flagSet[renamed], r.mem, env[envName])
             cl == Append(r.calls, [flag |-> renamed, val |-> env[envName],
                                    src |-> "env", ok |-> v.ok])
         IN  IF v.panic THEN Res(r.flagSet, v.mem, r.reg, cl, "panic", ErrFrom("nil map"))
             ELSE IF ~v.ok THEN Res(r.flagSet, v.mem, r.reg, cl, "error",
                                    ErrEnv(addr, envName))
             ELSE Res(r.flagSet, v.mem, r.reg, cl, "ok", ErrNone)

SetFromEnv(r, addr, renamed, envName) ==
    IF opts.noSetFromEnv \/ envName = <<>> \/ envName \notin DOMAIN env THEN r
    ELSE IF renamed \notin DOMAIN r.flagSet
    THEN Res(r.flagSet, r.mem, r.reg, r.calls, "panic", ErrFrom("nil flag"))
    ELSE LET v == ValueSet(r.flagSet[renamed], r.mem, env[envName])
             cl == Append(r.calls, [flag |-> renamed, val |-> env[envName],
                                    src |-> "env", ok |-> v.ok])
         IN  IF v.panic THEN Res(r.flagSet, v.mem, r.reg, cl, "panic", ErrFrom("nil map"))
             ELSE IF ~v.ok THEN Res(r.flagSet, v.mem, r.reg, cl, "error",
                                    ErrEnv(addr, envName))
             ELSE Res(r.flagSet, v.mem, r.reg, cl, "ok", ErrNone)

processField(fs, m, reg, cl, addr, name, t, tag) ==
    LET envName == ResolveEnvName(tag, name)
        aliases == TagGet(tag, "aliases")
        hasDefaultTag == "default" \in DOMAIN tag
        tagDefault == TagGet(tag, "default")
        renamed == ResolveFlagName(tag, name)
    IN  IF SkipsField(tag)
        THEN Res(fs, m, reg, cl, "ok", ErrNone)
        ELSE The({IF sup.ok
                  THEN processGeneral(sup.reg[t.name], fs, m, sup.reg, cl, addr, t,
                                      hasDefaultTag, tagDefault, renamed, envName,
                                      aliases, tag)
                  ELSE The({IF r.out # "ok" THEN r
                            ELSE SetFromEnv(r, addr, renamed, envName) :
                              r \in {Dispatch(fs, m, sup.reg, cl, addr, t, hasDefaultTag,
                                              tagDefault, renamed, envName, aliases,
                                              tag)}}) :
                    sup \in {isSupportedStruct(reg, t)}})

-----------------------------------------------------------------------------
(* The struct types of the targets.  root is the target's description: its *)
(* shape and the parts of the shape that vary.                             *)

StructT(name) == Ty("struct", name)

Merge(f, g) == [k \in DOMAIN f \cup DOMAIN g |-> IF k \in DOMAIN g THEN g[k] ELSE f[k]]

FlattenTag(v) ==
    IF v = "true" THEN [flatten |-> TextTrue]
    ELSE IF v = "false" THEN [flatten |-> <<"f", "a", "l", "s", "e">>]
    ELSE EmptyTag

\* the tag of a field that Fill has to leave alone
IgnoredTag ==
    [flag |-> <<>>, default |-> <<"x">>, aliases |-> <<"alt">>, env |-> <<"ign">>]

MemberType(member) ==
    IF member = "struct" THEN StructT("main.Leafs")
    ELSE IF member = "outer" THEN StructT("main.Outer")
    ELSE IF member = "ptr" THEN PtrTo(StructT("main.Leafs"))
    ELSE IF member = "time" THEN TimeT
    ELSE IF member = "level" THEN LevelT
    ELSE IF member = "bool" THEN BoolT
    ELSE IF member = "deep" THEN StructT("main.Deep")
    ELSE StringT

\* the fields of a struct type, in declaration order
StructFields(tn) ==
    IF tn = "main.Config" /\ root.shape = "one" THEN
        <<Field(<<"host">>, StringT, TRUE, [default |-> <<"h">>]),
          Field(<<"value">>, root.type, TRUE, root.tag),
          Field(<<"tail">>, StructT("main.Tail"), TRUE, EmptyTag)>>
    ELSE IF tn = "main.Config" /\ root.shape = "nest" THEN
        <<Field(<<"host">>, StringT, TRUE, EmptyTag),
          Field(<<"outer">>, StructT("main.Outer"), TRUE, FlattenTag(root.fo)),
          Field(<<"ptr">>, PtrTo(StructT("main.Leafs")), TRUE, FlattenTag(root.fp))>>
    ELSE IF tn = "main.Config" /\ root.shape = "hidden" THEN
        <<Field(<<"host">>, StringT, TRUE, EmptyTag),
          Field(<<"hidden">>, StructT("main.Hidden"), FALSE, EmptyTag),
          Field(<<"hidden", "ptr">>, PtrTo(StructT("main.Leafs")), FALSE, EmptyTag),
          Field(<<"secret">>, StringT, FALSE, [default |-> <<"x">>])>>
    ELSE IF tn = "main.Config" /\ root.shape = "skip" THEN
        <<Field(<<"host">>, StringT, TRUE, EmptyTag),
          Field(<<"gets", "ignored">>, MemberType(root.member), TRUE, IgnoredTag),
          Field(<<"tail">>, StructT("main.Tail"), TRUE, EmptyTag)>>
    ELSE IF tn = "main.Tail" THEN
        <<Field(<<"last">>, BoolT, TRUE, EmptyTag)>>
    ELSE IF tn = "main.Outer" THEN
        <<Field(<<"leaf">>, StringT, TRUE, EmptyTag),
          Field(<<"mid">>, StructT("main.Mid"), TRUE, FlattenTag(root.fm))>>
    ELSE IF tn = "main.Mid" THEN
        <<Field(<<"deepest">>, StringT, TRUE, EmptyTag)>>
    ELSE IF tn = "main.Leafs" THEN
        <<Field(<<"some", "field">>, StringT, TRUE, EmptyTag),
          Field(<<"note">>, StringT, FALSE, EmptyTag)>>
    ELSE IF tn = "main.Deep" THEN
        <<Field(<<"x">>, StringT, TRUE, [default |-> <<"d">>])>>
    ELSE IF tn = "main.Hidden" THEN
        <<Field(<<"some", "field">>, StringT, TRUE, [default |-> <<"d">>]),
          Field(<<"another", "field">>, StringT, FALSE, EmptyTag)>>
        \o (IF root.member = "none" THEN <<>>
            ELSE <<Field(<<"member">>, MemberType(root.member),
                         root.member # "deep", EmptyTag)>>)
    ELSE IF tn = "main.Config" /\ root.shape = "self" THEN
        <<Field(<<"host">>, StringT, TRUE, EmptyTag),
          Field(<<"next">>, PtrTo(StructT("main.Config")), TRUE, EmptyTag)>>
    ELSE IF tn = "main.Config" /\ root.shape = "regptr" THEN
        <<Field(<<"host">>, StringT, TRUE, EmptyTag),
          Field(<<"net">>, PtrTo(IPNetT), TRUE, root.tag),
          Field(<<"tail">>, StructT("main.Tail"), TRUE, EmptyTag)>>
    ELSE IF tn = "main.Config" /\ root.shape = "clash" THEN
        (IF root.member = "nested"
             THEN <<Field(<<"foo", "bar">>, StringT, TRUE, EmptyTag),
                    Field(<<"foo">>, StructT("main.Foo"), TRUE, EmptyTag)>>
         ELSE IF root.member = "apart"
             THEN <<Field(<<"foo", "bar">>, StringT, TRUE, EmptyTag),
                    Field(<<"baz">>, StructT("main.Foo"), TRUE, EmptyTag)>>
         ELSE <<Field(<<"host">>, StringT, TRUE, EmptyTag),
                Field(<<"value">>, StringT, TRUE,
                      IF root.member = "alias" THEN [aliases |-> <<"host">>]
                      ELSE [flag |-> <<"host">>])>>)
    ELSE IF tn = "main.Foo" THEN
        <<Field(<<"bar">>, StringT, TRUE, EmptyTag)>>
    ELSE IF tn = "net.IPNet" THEN
        <<Field(<<"ip">>, IPT, TRUE, EmptyTag),
          Field(<<"mask">>, IPMaskT, TRUE, EmptyTag)>>
    ELSE IF tn = "time.Time" THEN
        <<Field(<<"wall">>, Uint64T, FALSE, EmptyTag),
          Field(<<"ext">>, Int64T, FALSE, EmptyTag),
          Field(<<"loc">>, PtrTo(StructT("time.Location")), FALSE, EmptyTag)>>
    ELSE <<>>

\* the struct types whose value the model keeps whole
Opaque == {"time.Time", "netip.Addr", "time.Location", "net.IPNet"}

\* the nesting of walkFields activations the model follows: the stack of
\* the goroutine is taken to be exhausted beyond it
MaxDepth == 4

\* a field of a struct at address base has the address base \o <<index>>;
\* what a pointer at address a points at has the address a \o <<0>>; no
\* address is kept for what lies deeper than the walk can get
RECURSIVE AddrTypes(_, _)
AddrTypes(tn, base) ==
    LET OfField(f, a) ==
            IF f.type.kind = "struct" /\ f.type.name \notin Opaque
            THEN AddrTypes(f.type.name, a)
            ELSE IF f.type.kind = "ptr"
            THEN {<<a, f.type>>}
                 \cup (IF Len(a) >= 2 * MaxDepth - 1 THEN {}
                       ELSE IF f.type.elem = "struct" /\ f.type.name \notin Opaque
                       THEN AddrTypes(f.type.name, Append(a, 0))
                       ELSE {<<Append(a, 0), Ty(f.type.elem, f.type.name)>>})
            ELSE {<<a, f.type>>}
    IN  UNION {OfField(StructFields(tn)[i], Append(base, i)) :
                 i \in 1..Len(StructFields(tn))}

TypeAt(a) == (CHOOSE p \in AddrTypes("main.Config", <<>>) : p[1] = a)[2]
Addrs == {p[1] : p \in AddrTypes("main.Config", <<>>)}

\* the address of the field that varies in the shape "one"
ValueAddr == <<2>>

\* the target as the caller hands it to Fill
InitialValue(a) ==
    IF root.shape = "one" /\ a = ValueAddr THEN root.inst
    ELSE IF TypeAt(a).kind = "ptr" THEN root.ptr
    \* the instance the caller made: a struct literal with its fields set
    ELSE IF root.ptr = 1 /\ TypeAt(a).kind = "string" /\ (\E i \in 1..Len(a) : a[i] = 0)
        THEN <<"i">>
    ELSE ZeroOf(TypeAt(a))

-----------------------------------------------------------------------------
(* The inputs: targets, options, environments and argument texts *)

MaxSets == 2

ValueTypes ==
    ScalarTypes \cup {StringSliceT, StringMapT, LevelT, TimeT, AddrT, IPT,
                      Int32T, IntSliceT, MyStringT, MyBoolT,
                      CustomIntT, CustomDurationT, CustomStringSliceT, CustomStringMapT}

\* the texts tried as default tag, environment value and argument
TextsOf(tn) ==
    IF tn \in {"string", "main.MyString", "stringSlice", "[]string", "main.CustomStringSlice"}
        THEN {<<"a", ",", "b">>, <<"c">>, <<" ">>}
    ELSE IF tn \in {"bool", "main.MyBool"} THEN {<<"t">>, <<"0">>, <<"x">>}
    ELSE IF tn \in {"int", "main.CustomInt"} THEN {<<"7">>, <<"0", "1", "0">>, <<"x">>}
    ELSE IF tn = "int64" THEN {<<"7">>, <<"-", "3">>, <<"x">>}
    ELSE IF tn = "uint" THEN {<<"5">>, <<"-", "1">>, <<"x">>}
    ELSE IF tn = "uint64" THEN {<<"5">>, <<"0", "x", "1", "0">>, <<"-", "1">>}
    ELSE IF tn = "float64" THEN {<<"1", ".", "5">>, <<"2">>, <<"x">>}
    ELSE IF tn \in {"time.Duration", "duration", "main.CustomDuration"}
        THEN {<<"5", "s">>, <<"1", "m", "3", "0", "s">>, <<"5">>}
    ELSE IF tn \in {"map[string]string", "stringMap", "main.CustomStringMap"}
        THEN {<<"k", "=", "v">>, <<"k", "=", "w", ",", "j", ",", "k", "=", "x">>, <<>>}
    ELSE IF tn = "slog.Level"
        THEN {<<"i", "n", "f", "o">>, <<"E", "R", "R", "O", "R", "-", "4">>, <<"x">>}
    ELSE IF tn = "time.Time"
        THEN {<<"2", "0", "2", "4", "-", "0", "2", "-", "2", "9", " ",
                "0", "3", ":", "0", "4", ":", "0", "5">>,
              <<"2", "0", "2", "4">>, <<"x">>}
    ELSE IF tn = "net.IPNet"
        THEN {<<"1", ".", "2", ".", "3", ".", "4", "/", "8">>,
              <<"1", ".", "2", ".", "3", ".", "4">>, <<"x">>}
    ELSE IF tn \in {"netip.Addr", "net.IP"}
        THEN {<<"1", ".", "2", ".", "3", ".", "4">>, <<"9", ".", "9", ".", "9", ".", "9">>,
              <<"x">>}
    ELSE {<<"1">>}

\* a value of the type that is not its zero value
Sample(t) ==
    IF t.name = "time.Time"
        THEN [year |-> 2000, month |-> 1, day |-> 1, hour |-> 0, min |-> 0, sec |-> 0]
    ELSE IF t.name \in {"netip.Addr", "net.IP"} THEN <<8, 8, 8, 8>>
    ELSE IF t.name = "net.IPNet" THEN [ip |-> <<8, 0, 0, 0>>, mask |-> <<255, 0, 0, 0>>]
    ELSE IF t.name = "[]int" THEN <<1>>
    ELSE IF t.kind = "string" THEN <<"i">>
    ELSE IF t.kind = "bool" THEN TRUE
    ELSE IF t.kind = "float64" THEN [m |-> 25, d |-> 1]
    ELSE IF t.kind \in {"uint", "uint64"} THEN ToUint(3)
    ELSE IF t.kind = "slice" THEN << <<"x">>, <<"y">> >>
    ELSE IF t.kind = "map" THEN MapOf([k \in {<<"i">>} |-> <<"v">>])
    ELSE 3

\* the type tag a field of the type is given: the named types over
\* time.Duration, []string and map[string]string need theirs
TypeHint(t) ==
    IF t = CustomDurationT THEN [type |-> <<"duration">>]
    ELSE IF t = CustomStringSliceT THEN [type |-> <<"stringSlice">>]
    ELSE IF t = CustomStringMapT THEN [type |-> <<"stringMap">>]
    ELSE EmptyTag

\* the tags of the field Value: a default tag or none, and one more tag or
\* none; a type tag on fields of a few builtin kinds too
TagsOf(t) ==
    LET defaults == {Merge(TypeHint(t), x) :
                       x \in {EmptyTag} \cup {[default |-> d] : d \in TextsOf(t.name)}}
        more == {EmptyTag,
                 [env |-> <<"server", "_", "address">>],
                 [env |-> <<>>],
                 [aliases |-> <<"alt">>]}
                \cup (IF t = StringSliceT
                      THEN {[x \in {"override-value"} |-> TextTrue]} ELSE {})
                \cup (IF t = TimeT THEN {[layout |-> <<"2", "0", "0", "6">>]} ELSE {})
                \cup (IF t \in {StringT, Int64T} THEN {[type |-> <<"duration">>]}
                      ELSE IF t \in {IntT, BoolT} THEN {[type |-> <<"stringSlice">>]}
                      ELSE IF t \in {Float64T, UintT} THEN {[type |-> <<"stringMap">>]}
                      ELSE {})
    IN  {Merge(d, x) : d \in defaults, x \in more}

Root(shape, type, tag, inst, member, fo, fm, fp, ptr) ==
    [shape |-> shape, type |-> type, tag |-> tag, inst |-> inst, member |-> member,
     fo |-> fo, fm |-> fm, fp |-> fp, ptr |-> ptr]

FlattenValues == {"none", "true", "false"}

\* what Fill is handed in the shape "other": a struct value, a string, a
\* pointer to a string, or nil
FromKinds == {"struct", "string", "ptr", "nil"}

Roots ==
    UNION {{Root("one", t, tag, inst, "none", "none", "none", "none", 0) :
              tag \in TagsOf(t), inst \in {ZeroOf(t), Sample(t)}} : t \in ValueTypes}
    \cup {Root("nest", StringT, EmptyTag, <<>>, "none", fo, fm, fp, ptr) :
            fo \in FlattenValues, fm \in FlattenValues, fp \in FlattenValues,
            ptr \in {0, 1}}
    \cup {Root("hidden", StringT, EmptyTag, <<>>, member, "none", "none", "none", ptr) :
            member \in {"none", "string", "ptr", "level", "deep", "struct", "time"},
            ptr \in {0, 1}}
    \cup {Root("skip", StringT, EmptyTag, <<>>, member, "none", "none", "none", 0) :
            member \in {"string", "bool", "ptr", "outer", "time"}}
    \cup {Root("one", IPNetT, tag, inst, "none", "none", "none", "none", 0) :
            tag \in {EmptyTag, [aliases |-> <<"alt">>]}
                    \cup {[default |-> d] : d \in TextsOf("net.IPNet")},
            inst \in {ZeroOf(IPNetT), Sample(IPNetT)}}
    \cup {Root("regptr", IPNetT, tag, <<>>, "none", "none", "none", "none", ptr) :
            tag \in {EmptyTag, [aliases |-> <<"alt">>]}, ptr \in {0, 1}}
    \cup {Root("clash", StringT, EmptyTag, <<>>, member, "none", "none", "none", 0) :
            member \in {"nested", "apart", "alias", "flag"}}
    \cup {Root("self", StringT, EmptyTag, <<>>, "none", "none", "none", "none", ptr) :
            ptr \in {0, 1}}
    \cup {Root("other", StringT, EmptyTag, <<>>, from, "none", "none", "none", 0) :
            from \in FromKinds}

\* fillerOptions: whether WithEnv("App") was given, NoSetFromEnv, and the
\* delimiters of the value split pattern (none for the empty pattern)
Options(r) ==
    {[envRenamer |-> e, envPrefix |-> <<"app">>, noSetFromEnv |-> n,
      valueSplitPattern |-> p] :
        e \in BOOLEAN, n \in BOOLEAN,
        p \in {{",", "\n"}} \cup (IF r.type = StringSliceT THEN {{}} ELSE {})}

NoEnv == [x \in {} |-> <<>>]
EnvOf(k, v) == [x \in {k} |-> v]

\* the process environment: empty, or one variable
Envs(r) ==
    {NoEnv}
    \cup (IF r.shape = "one"
          THEN {EnvOf(k, v) :
                  k \in {<<"app", "_", "value">>}
                        \cup (IF "env" \in DOMAIN r.tag
                              THEN {<<"server", "_", "address">>} ELSE {}),
                  v \in TextsOf(r.type.name)}
          ELSE IF r.shape = "skip" THEN {EnvOf(<<"ign">>, <<"x">>)}
          ELSE {EnvOf(<<"app", "_", "host">>, <<"e">>)})

-----------------------------------------------------------------------------
(* Fill and walkFields *)

\* walkFields, on entry: a prefix that is not empty gets the separator
WithSeparator(prefix) == IF prefix # <<>> THEN Append(prefix, "-") ELSE prefix

shouldFlatten(field) ==
    "flatten" \in DOMAIN field.tag /\ field.tag["flatten"] = TextTrue

\* a qualified name that forgets the path of the enclosing structs
qualifiedNameForStructField_Bare(field, prefix) ==
    IF ~shouldFlatten(field) THEN field.name ELSE prefix

qualifiedNameForStructField(field, prefix) ==
    IF ~shouldFlatten(field) THEN prefix \o field.name ELSE prefix

\* an activation of walkFields: the struct type and address, the index of
\* the next field, the prefix and whether the struct value was obtained
\* through an unexported field (reflect's read-only flag)
Frame(tn, base, prefix, ro) ==
    [tn |-> tn, base |-> base, idx |-> 1, prefix |-> WithSeparator(prefix), ro |-> ro]

\* no concurrent Fill calls
NoConc == [pos |-> <<>>, idx |-> <<>>, flags |-> <<>>, target |-> <<>>, writers |-> {}]

Init ==
    /\ root \in Roots
    /\ opts \in Options(root)
    /\ env \in Envs(root)
    /\ mem = [a \in Addrs |-> InitialValue(a)]
    /\ flagSet = [n \in {} |-> 0]
    /\ extendedTypes = InitialRegistry
    /\ pc = "idle"
    /\ stack = <<>>
    /\ err = ErrNone
    /\ calls = <<>>
    /\ conc = NoConc

\* RegisterSimpleType(c) called by the program before Fill, c converting
\* to the type of the field Value as its UnmarshalText does
RegisterSimpleType ==
    /\ pc = "idle"
    /\ extendedTypes = InitialRegistry
    /\ root.shape = "one" /\ root.type = AddrT
    /\ extendedTypes' = Registered(extendedTypes, root.type.name, "simpleType")
    /\ UNCHANGED <<root, opts, env, mem, flagSet, pc, stack, err, calls, conc>>

\* RegisterTextUnmarshaler(new(T)) called by the program before Fill, T
\* the type of the field Value
RegisterTextUnmarshaler ==
    /\ pc = "idle"
    /\ extendedTypes = InitialRegistry
    /\ root.shape = "one" /\ root.type \in {AddrT, LevelT}
    /\ extendedTypes' = Registered(extendedTypes, root.type.name, "textUnmarshalerType")
    /\ UNCHANGED <<root, opts, env, mem, flagSet, pc, stack, err, calls, conc>>

\* Fill: reflect.ValueOf(from).Type() panics on the zero Value of a nil
\* from; a pointer to a struct starts walkFields; any other kind is an error
Fill ==
    /\ pc = "idle"
    /\ pc' = IF root.shape # "other" THEN "walking"
             ELSE IF root.member = "nil" THEN "panic" ELSE "error"
    /\ stack' = IF root.shape # "other"
                THEN <<Frame("main.Config", <<>>, <<>>, FALSE)>> ELSE <<>>
    /\ err' = IF root.shape # "other" THEN err
              ELSE IF root.member = "nil" THEN ErrFrom("zero Value")
              ELSE ErrFill(root.member)
    /\ UNCHANGED <<root, opts, env, mem, flagSet, extendedTypes, calls, conc>>

\* handleDefault: processField on the field at addr when its address can be
\* taken as an interface (the field and its ancestors are exported)
handleDefault(fr, field, addr, fs, m, reg, cl) ==
    IF ~fr.ro /\ field.exported
    THEN processField(fs, m, reg, cl, addr, fr.prefix \o field.name,
                      IF field.type.kind = "ptr"
                      THEN Ty(field.type.elem, field.type.name) ELSE field.type,
                      field.tag)
    ELSE Res(fs, m, reg, cl, "ok", ErrNone)

\* the state after a step of the walk that ended as r says, the frames
\* being rest when the walk goes on
AfterStep(r, rest) ==
    /\ mem' = r.mem
    /\ flagSet' = r.flagSet
    /\ extendedTypes' = r.reg
    /\ calls' = r.calls
    /\ err' = r.err
    /\ pc' = IF r.out = "ok" THEN "walking" ELSE r.out
    /\ stack' = IF r.out = "ok" THEN rest ELSE <<>>
    /\ UNCHANGED <<root, opts, env, conc>>

\* a new instance in place of the one the pointer at a refers to
allocated_Fresh(m, a) ==
    [b \in DOMAIN m |-> IF b = a THEN 2
                        ELSE IF Len(b) > Len(a) /\ SubSeq(b, 1, Len(a)) = a
                        THEN ZeroOf(TypeAt(b)) ELSE m[b]]

\* if field.IsNil() { field.Set(reflect.New(field.Type().Elem())) }
allocated(m, a) == IF m[a] = 0 THEN [m EXCEPT ![a] = 2] ELSE m

\* a step of the walk that leaves a nil pointer alone
walkStep_SkipsNil(st, fs, m, reg, cl) ==
    LET fr == Head(st)
        field == StructFields(fr.tn)[fr.idx]
        a == Append(fr.base, fr.idx)
        next == <<[fr EXCEPT !.idx = fr.idx + 1]>> \o Tail(st)
        skipped == SkipsField(field.tag)
        isStruct == ~skipped /\ field.type.kind = "struct"
        isPtr == ~skipped /\ field.type.kind = "ptr"
        \* case reflect.Ptr: a settable pointer to a struct
        ptrWalked == isPtr /\ ~fr.ro /\ field.exported /\ field.type.elem = "struct"
                        /\ m[a] # 0
        \* Interface() on a value obtained through an unexported field
        panics == isStruct /\ field.exported /\ fr.ro
        probed == (isStruct /\ field.exported /\ ~fr.ro) \/ ptrWalked
        sup == IF probed THEN isSupportedStruct(reg, field.type)
               ELSE [reg |-> reg, ok |-> FALSE]
        \* a nil pointer is set to a new zero struct
        m1 == IF ptrWalked THEN allocated(m, a) ELSE m
        target == IF isPtr THEN Append(a, 0) ELSE a
        terminal == ~skipped /\ ~panics
                       /\ (sup.ok \/ (~isStruct /\ ~isPtr))
        walked == ~panics /\ ~sup.ok /\ (isStruct \/ ptrWalked)
        frames == IF walked
                  THEN <<Frame(field.type.name, target,
                               qualifiedNameForStructField(field, fr.prefix),
                               fr.ro \/ ~field.exported)>> \o next
                  ELSE next
        \* the recursion of walkFields gets deeper than the stack allows
        overflow == walked /\ Len(st) >= MaxDepth
    IN  The({[r |-> r, frames |-> frames] :
               r \in {IF panics
                      THEN Res(fs, m, reg, cl, "panic", ErrFrom("interface"))
                      ELSE IF overflow
                      THEN Res(fs, m1, reg, cl, "panic", ErrFrom("stack"))
                      ELSE IF terminal
                      THEN handleDefault(fr, field, target, fs, m1, sup.reg, cl)
                      ELSE Res(fs, m1, sup.reg, cl, "ok", ErrNone)}})

\* one iteration of the loop of walkFields on the frames st, the flags fs,
\* the values m, the registry reg and the calls cl: the field is skipped,
\* handed to handleDefault (terminal) or walked into; the result of the step
\* and the frames the walk goes on with
walkStep(st, fs, m, reg, cl) ==
    LET fr == Head(st)
        field == StructFields(fr.tn)[fr.idx]
        a == Append(fr.base, fr.idx)
        next == <<[fr EXCEPT !.idx = fr.idx + 1]>> \o Tail(st)
        skipped == SkipsField(field.tag)
        isStruct == ~skipped /\ field.type.kind = "struct"
        isPtr == ~skipped /\ field.type.kind = "ptr"
        \* case reflect.Ptr: a settable pointer to a struct
        ptrWalked == isPtr /\ ~fr.ro /\ field.exported /\ field.type.elem = "struct"
        \* Interface() on a value obtained through an unexported field
        panics == isStruct /\ field.exported /\ fr.ro
        probed == (isStruct /\ field.exported /\ ~fr.ro) \/ ptrWalked
        sup == IF probed THEN isSupportedStruct(reg, field.type)
               ELSE [reg |-> reg, ok |-> FALSE]
        \* a nil pointer is set to a new zero struct
        m1 == IF ptrWalked THEN allocated(m, a) ELSE m
        target == IF isPtr THEN Append(a, 0) ELSE a
        terminal == ~skipped /\ ~panics
                       /\ (sup.ok \/ (~isStruct /\ ~isPtr))
        walked == ~panics /\ ~sup.ok /\ (isStruct \/ ptrWalked)
        frames == IF walked
                  THEN <<Frame(field.type.name, target,
                               qualifiedNameForStructField(field, fr.prefix),
                               fr.ro \/ ~field.exported)>> \o next
                  ELSE next
        \* the recursion of walkFields gets deeper than the stack allows
        overflow == walked /\ Len(st) >= MaxDepth
    IN  The({[r |-> r, frames |-> frames] :
               r \in {IF panics
                      THEN Res(fs, m, reg, cl, "panic", ErrFrom("interface"))
                      ELSE IF overflow
                      THEN Res(fs, m1, reg, cl, "panic", ErrFrom("stack"))
                      ELSE IF terminal
                      THEN handleDefault(fr, field, target, fs, m1, sup.reg, cl)
                      ELSE Res(fs, m1, sup.reg, cl, "ok", ErrNone)}})

\* the loop of walkFields takes one step
WalkField ==
    /\ pc = "walking"
    /\ stack # <<>>
    /\ Head(stack).idx <= Len(StructFields(Head(stack).tn))
    /\ \E w \in {walkStep(stack, flagSet, mem, extendedTypes, calls)} :
          AfterStep(w.r, w.frames)

\* walkFields returns nil after the last field; Fill returns with it
WalkReturn ==
    /\ pc = "walking"
    /\ stack # <<>>
    /\ Head(stack).idx > Len(StructFields(Head(stack).tn))
    /\ stack' = Tail(stack)
    /\ pc' = IF Tail(stack) = <<>> THEN "filled" ELSE "walking"
    /\ UNCHANGED <<root, opts, env, mem, flagSet, extendedTypes, err, calls, conc>>

ArgCalls == SelectSeq(calls, LAMBDA c : c.src = "arg")

\* the argument texts tried on a flag: all the texts of its type for the
\* field Value, one text for the flags of the other shapes
ArgTexts(f) ==
    IF root.shape = "one"
    THEN (IF f.addr = ValueAddr THEN TextsOf(f.conv) ELSE {})
    ELSE {<<"t">>}

\* FlagSet.Set(name, val) after Fill, as the parsing of an argument makes it
Set(name, val) ==
    /\ pc = "filled"
    /\ Len(ArgCalls) < MaxSets
    /\ name \in DOMAIN flagSet
    /\ LET v == ValueSet(flagSet[name], mem, val)
       IN  /\ mem' = v.mem
           /\ calls' = Append(calls, [flag |-> name, val |-> val, src |-> "arg",
                                      ok |-> v.ok])
           /\ pc' = IF v.panic THEN "panic" ELSE pc
    /\ UNCHANGED <<root, opts, env, flagSet, extendedTypes, stack, err, conc>>

Next ==
    \/ RegisterSimpleType
    \/ RegisterTextUnmarshaler
    \/ Fill
    \/ WalkField
    \/ WalkReturn
    \/ \E name \in DOMAIN flagSet : \E val \in ArgTexts(flagSet[name]) : Set(name, val)

Spec == Init /\ [][Next]_vars

-----------------------------------------------------------------------------
(* Two Fill calls running concurrently, each on its own target and flag    *)
(* set: what they share is the map extendedTypes, which is read and        *)
(* written without a lock. conc.pos is where each call is in processField, *)
(* conc.idx the field it is at, conc.flags the flags it has registered,    *)
(* conc.writers the calls that are inside an assignment to the map.        *)

Procs == {1, 2}

\* the field types of the targets
ConcTargets == {<<StringT, AddrT>>, <<AddrT, LevelT>>, <<LevelT, StringT, AddrT>>}

InitConc ==
    /\ root = Root("other", StringT, EmptyTag, <<>>, "struct", "none", "none", "none", 0)
    /\ opts \in Options(root) /\ ~opts.envRenamer /\ ~opts.noSetFromEnv
    /\ env = NoEnv
    /\ mem = [a \in Addrs |-> InitialValue(a)]
    /\ flagSet = [n \in {} |-> 0]
    /\ extendedTypes = InitialRegistry
    /\ pc = "idle"
    /\ stack = <<>>
    /\ err = ErrNone
    /\ calls = <<>>
    /\ \E t1 \in ConcTargets, t2 \in ConcTargets :
          conc = [pos |-> <<"probe", "probe">>, idx |-> <<1, 1>>,
                  flags |-> << <<>>, <<>> >>, target |-> <<t1, t2>>, writers |-> {}]

ConcField(p) == conc.target[p][conc.idx[p]]

\* the call p goes on to its next field, or is done
ConcAdvance(c, p) ==
    [c EXCEPT !.idx[p] = c.idx[p] + 1,
              !.pos[p] = IF c.idx[p] < Len(c.target[p]) THEN "probe" ELSE "done"]

\* isSupportedStruct: _, ok := extendedTypes[getTypeName(t)], then whether
\* the type unmarshals text
ConcProbe(p) ==
    /\ conc.pos[p] = "probe"
    /\ conc' = [conc EXCEPT !.pos[p] =
                  IF ConcField(p).name \in DOMAIN extendedTypes THEN "handle"
                  ELSE IF ConcField(p).name \in TextUnmarshalers THEN "assign"
                  ELSE "switch"]
    /\ UNCHANGED <<root, opts, env, mem, flagSet, extendedTypes, pc, stack, err, calls>>

\* RegisterTextUnmarshaler: the assignment to the map begins
ConcAssignBegin(p) ==
    /\ conc.pos[p] = "assign"
    /\ conc' = [conc EXCEPT !.pos[p] = "assigning", !.writers = conc.writers \cup {p}]
    /\ UNCHANGED <<root, opts, env, mem, flagSet, extendedTypes, pc, stack, err, calls>>

\* RegisterTextUnmarshaler: the assignment to the map ends
ConcAssignEnd(p) ==
    /\ conc.pos[p] = "assigning"
    /\ extendedTypes' = Registered(extendedTypes, ConcField(p).name, "textUnmarshalerType")
    /\ conc' = [conc EXCEPT !.pos[p] = "handle", !.writers = conc.writers \ {p}]
    /\ UNCHANGED <<root, opts, env, mem, flagSet, pc, stack, err, calls>>

\* processField: handler := extendedTypes[getTypeName(t)], and the handler
\* registers the field's flag in the call's own flag set
ConcHandle(p) ==
    /\ conc.pos[p] = "handle"
    /\ ConcField(p).name \in DOMAIN extendedTypes
    /\ conc' = ConcAdvance([conc EXCEPT !.flags[p] =
                              Append(conc.flags[p],
                                     [type |-> ConcField(p).name,
                                      vk |-> extendedTypes[ConcField(p).name]])], p)
    /\ UNCHANGED <<root, opts, env, mem, flagSet, extendedTypes, pc, stack, err, calls>>

\* processField: the switch over the kinds registers the field's flag
ConcSwitch(p) ==
    /\ conc.pos[p] = "switch"
    /\ conc' = ConcAdvance([conc EXCEPT !.flags[p] =
                              Append(conc.flags[p],
                                     [type |-> ConcField(p).name,
                                      vk |-> ConcField(p).kind])], p)
    /\ UNCHANGED <<root, opts, env, mem, flagSet, extendedTypes, pc, stack, err, calls>>

\* the call p reads or writes the map while the other call is inside an
\* assignment to it: a data race, which the runtime may detect and end the
\* process for ("concurrent map read and map write", "concurrent map
\* writes"); when it goes undetected the access is made by the steps above
ConcFatal(p) ==
    /\ conc.pos[p] \in {"probe", "assign", "assigning", "handle"}
    /\ conc.writers \ {p} # {}
    /\ conc' = [conc EXCEPT !.pos = [q \in Procs |-> "fatal"], !.writers = {}]
    /\ UNCHANGED <<root, opts, env, mem, flagSet, extendedTypes, pc, stack, err, calls>>

NextConc ==
    \E p \in Procs :
       \/ ConcProbe(p)
       \/ ConcAssignBegin(p)
       \/ ConcAssignEnd(p)
       \/ ConcHandle(p)
       \/ ConcSwitch(p)
       \/ ConcFatal(p)

SpecConc == InitConc /\ [][NextConc]_vars

-----------------------------------------------------------------------------
(* The field Value of the shape "one": its names and what was Set on it *)

ValueName == ResolveFlagName(root.tag, <<"value">>)
ValueEnvName == ResolveEnvName(root.tag, <<"value">>)
ValueKind == IF root.type = DurationT THEN "duration" ELSE root.type.kind
HasDefault == "default" \in DOMAIN root.tag
EnvGiven == ValueEnvName # <<>> /\ ValueEnvName \in DOMAIN env
EnvApplies == EnvGiven /\ ~opts.noSetFromEnv
LastArg == ArgCalls[Len(ArgCalls)]

-----------------------------------------------------------------------------
(* Precedence of argument, environment and default *)

\* a scalar field with a default tag and an environment name, after Fill
ScalarCase ==
    /\ pc = "filled"
    /\ root.shape = "one"
    /\ root.type \in ScalarTypes
    /\ HasDefault
    /\ ValueEnvName # <<>>
    /\ ~opts.noSetFromEnv

\* C1: a scalar field with a convertible default tag and an environment
\* name holds, after Fill and the parsing of the arguments, the converted
\* argument when one was given, else the converted value of the environment
\* variable when it exists, else the converted default tag
C1_Precedence ==
    ScalarCase =>
        /\ (ArgCalls # <<>> /\ LastArg.ok)
              => mem[ValueAddr] = StdValueSet(ValueKind, LastArg.val).v
        /\ (ArgCalls = <<>> /\ EnvGiven)
              => mem[ValueAddr] = StdValueSet(ValueKind, env[ValueEnvName]).v
        /\ (ArgCalls = <<>> /\ ~EnvGiven)
              => mem[ValueAddr] = DefaultParse(ValueKind, root.tag["default"]).v

\* an argument, an environment value and a default that convert to three
\* different values, the argument's being the one the field holds
C1_Witness ==
    /\ ScalarCase
    /\ EnvGiven
    /\ ArgCalls # <<>>
    /\ LastArg.ok
    /\ mem[ValueAddr] = StdValueSet(ValueKind, LastArg.val).v
    /\ mem[ValueAddr] # StdValueSet(ValueKind, env[ValueEnvName]).v
    /\ mem[ValueAddr] # DefaultParse(ValueKind, root.tag["default"]).v
    /\ StdValueSet(ValueKind, env[ValueEnvName]).v
          # DefaultParse(ValueKind, root.tag["default"]).v

\* the Set calls Fill made from the environment on the flag of Value
EnvCalls == SelectSeq(calls, LAMBDA c : c.src = "env" /\ c.flag = ValueName)

\* C2: every terminal field with an environment name whose variable exists
\* has, after Fill with environment application enabled, the variable's
\* value applied to it through its flag, whatever handles the field's type
C2_EnvAppliedToEveryField ==
    (pc = "filled" /\ root.shape = "one" /\ EnvApplies
        /\ ValueName \in DOMAIN flagSet)
        => /\ EnvCalls # <<>>
           /\ EnvCalls[1].val = env[ValueEnvName]

\* the texts Set on the field Value, in order: the environment's, then the
\* arguments'
SetTexts == [i \in 1..Len(calls) |-> calls[i].val]

\* a list or map field with a default tag whose environment variable is set
ListMapCase ==
    /\ pc = "filled"
    /\ root.shape = "one"
    /\ root.type \in {StringSliceT, StringMapT}
    /\ HasDefault
    /\ EnvApplies

\* what a text alone converts to, for a list and for a map
ListMapAlone(val) ==
    IF root.type = StringSliceT THEN parseStringSlice(val, opts.valueSplitPattern)
    ELSE MapOf(parseStringToStringMap(val))

\* C3 as stated: the environment value alone replaces the default of a list
\* or map field, and an argument alone replaces both
C3_Replaces ==
    ListMapCase =>
        /\ ArgCalls = <<>> => mem[ValueAddr] = ListMapAlone(env[ValueEnvName])
        /\ ArgCalls # <<>> => mem[ValueAddr] = ListMapAlone(LastArg.val)

RECURSIVE Overlay(_, _)
\* the entries kv overlaid by the entries of each of the texts in turn
Overlay(kv, texts) ==
    IF texts = <<>> THEN kv
    ELSE Overlay(Merge(kv, parseStringToStringMap(Head(texts))), Tail(texts))

\* the pieces of each of the texts, in order
PartsOfAll(texts) ==
    Flatten([i \in 1..Len(texts) |->
               parseStringSlice(texts[i], opts.valueSplitPattern)])

\* C3: a list field ends as the default's elements followed by those of the
\* environment value and of each argument (with override-value, as those of
\* the last text Set alone); a map field ends as the default's entries
\* overlaid by those of the environment value and of each argument
C3_Accumulates ==
    ListMapCase =>
        mem[ValueAddr] =
            IF root.type = StringMapT
            THEN MapOf(Overlay(parseStringToStringMap(root.tag["default"]), SetTexts))
            ELSE IF OverrideValue(root.tag)
            THEN ListMapAlone(SetTexts[Len(SetTexts)])
            ELSE ListMapAlone(root.tag["default"]) \o PartsOfAll(SetTexts)

\* a list that keeps elements of its default and of the environment value
\* after an argument was Set
C3_Witness ==
    /\ ListMapCase
    /\ root.type = StringSliceT
    /\ ArgCalls # <<>>
    /\ ListMapAlone(root.tag["default"]) # <<>>
    /\ ListMapAlone(env[ValueEnvName]) # <<>>
    /\ ListMapAlone(LastArg.val) # <<>>
    /\ mem[ValueAddr] = ListMapAlone(root.tag["default"]) \o PartsOfAll(SetTexts)

-----------------------------------------------------------------------------
(* Defaults that do not convert, types without a rule, unexported fields *)

\* whether a text denotes a value of the type
Denotes(t, text) ==
    IF t.kind \in {"uint", "uint64"} THEN ParseUint10(text).ok
    ELSE IF t.kind = "slice" \/ t.kind = "map" THEN TRUE
    ELSE Converter(IF t \in {DurationT, CustomDurationT} THEN "duration"
                   ELSE IF t.name \in DOMAIN InitialRegistry \cup TextUnmarshalers
                   THEN t.name ELSE t.kind,
                   text, root.tag).ok

\* the types some rule of Fill handles
Handled == ValueTypes \ {Int32T, IntSliceT}

\* Fill has returned or crashed
Ended == pc \in {"filled", "error", "panic"}

\* C4: a default tag of the second field that does not convert to the
\* field's type makes Fill return an error, registers no flag for that or
\* a later field, and leaves the flag and value of the first field
C4_BadDefaultFailsFast ==
    (Ended /\ root.shape = "one" /\ root.type \in Handled /\ HasDefault
        /\ ~Denotes(root.type, root.tag["default"]))
        => /\ pc = "error"
           /\ err.kind = "default"
           /\ DOMAIN flagSet = {<<"host">>}
           /\ mem[<<1>>] = <<"h">>

\* C5: a field of a type no rule matches gets no flag, keeps its value, and
\* Fill neither fails nor crashes, also when the field has an environment
\* name and the variable exists
C5_UnsupportedIgnored ==
    (root.shape = "one" /\ root.type \in {Int32T, IntSliceT})
        => /\ pc \notin {"error", "panic"}
           /\ \A n \in DOMAIN flagSet : flagSet[n].addr # ValueAddr
           /\ mem[ValueAddr] = root.inst

\* C6: Fill registers no flag for, writes nothing to and does not fail on
\* the unexported fields and what is reachable only through them
C6_UnexportedSkipped ==
    root.shape = "hidden"
        => /\ pc \notin {"error", "panic"}
           /\ \A n \in DOMAIN flagSet : flagSet[n].addr = <<1>>
           /\ \A a \in Addrs : a[1] # 1 => mem[a] = InitialValue(a)

\* C7: a field tagged flag:"" gets no flag under any name and is never
\* written (no default, no environment value, no allocation of a nil
\* pointer), and nothing below it gets a flag
C7_EmptyFlagTagSkips ==
    root.shape = "skip"
        => /\ \A n \in DOMAIN flagSet : flagSet[n].addr \in {<<1>>, <<3, 1>>}
           /\ DOMAIN flagSet \subseteq {<<"host">>, <<"tail", "-", "last">>}
           /\ \A a \in Addrs : a[1] = 2 => mem[a] = InitialValue(a)

\* Fill has passed a nil struct pointer tagged flag:"", with a default, an
\* alias and an environment variable that exists, and registered the fields
\* around it
C7_Witness ==
    /\ root.shape = "skip"
    /\ pc = "filled"
    /\ root.member = "ptr"
    /\ mem[<<2>>] = 0
    /\ <<"ign">> \in DOMAIN env
    /\ DOMAIN flagSet = {<<"host">>, <<"tail", "-", "last">>}

-----------------------------------------------------------------------------
(* Structural paths *)

RECURSIVE FieldsAlong(_, _)
\* the fields an address leads through, from the struct type tn
FieldsAlong(tn, a) ==
    IF a = <<>> THEN <<>>
    ELSE IF Head(a) = 0 THEN FieldsAlong(tn, Tail(a))
    ELSE <<StructFields(tn)[Head(a)]>>
            \o FieldsAlong(StructFields(tn)[Head(a)].type.name, Tail(a))

RECURSIVE Joined(_)
\* the names joined by one separator between neighbours
Joined(names) ==
    IF names = <<>> THEN <<>>
    ELSE IF Len(names) = 1 THEN names[1]
    ELSE names[1] \o <<"-">> \o Joined(Tail(names))

Ancestors(a) == SubSeq(FieldsAlong("main.Config", a), 1,
                       Len(FieldsAlong("main.Config", a)) - 1)
IsFlattened(f) == "flatten" \in DOMAIN f.tag /\ f.tag["flatten"] = TextTrue
NoneFlattened(a) == \A i \in 1..Len(Ancestors(a)) : ~IsFlattened(Ancestors(a)[i])

\* the names of the ancestors that are not flattened, then the field's
KeptNames(a) ==
    LET fs == FieldsAlong("main.Config", a)
        kept == SelectSeq(Ancestors(a), LAMBDA f : ~IsFlattened(f))
    IN  [i \in 1..Len(kept) |-> kept[i].name] \o <<fs[Len(fs)].name>>

\* the terminal fields of the shape "nest"
Terminals ==
    {a \in Addrs : /\ TypeAt(a).kind = "string"
                   /\ \A i \in 1..Len(FieldsAlong("main.Config", a)) :
                         FieldsAlong("main.Config", a)[i].exported}

\* the flag of the field at a is registered under the renamed joined path
NamedByPath(a) ==
    /\ renameLongName(Joined(KeptNames(a))) \in DOMAIN flagSet
    /\ flagSet[renameLongName(Joined(KeptNames(a)))].addr = a
    /\ \A n \in DOMAIN flagSet :
          flagSet[n].addr = a => n = renameLongName(Joined(KeptNames(a)))

\* C8: the flag of a terminal field reached through struct and
\* struct-pointer ancestors none of which is flattened is named by the
\* renamer applied to the ancestors' names and the field's name, each once,
\* in nesting order, joined by exactly one separator
C8_PathOfAncestors ==
    (pc = "filled" /\ root.shape = "nest")
        => \A a \in Terminals : NoneFlattened(a) => NamedByPath(a)

\* the flags of a field two structs deep and of a field behind a pointer
C8_Witness ==
    /\ pc = "filled"
    /\ root.shape = "nest"
    /\ \A a \in Terminals : NoneFlattened(a)
    /\ <<"outer", "-", "mid", "-", "deepest">> \in DOMAIN flagSet
    /\ <<"ptr", "-", "some", "-", "field">> \in DOMAIN flagSet
    /\ flagSet[<<"outer", "-", "mid", "-", "deepest">>].addr = <<2, 2, 1>>

\* C9: below a field tagged flatten:"true", at whatever depth it sits, the
\* path of a descendant is the path without the flattened field's segment
C9_FlattenDropsOwnSegment ==
    (pc = "filled" /\ root.shape = "nest")
        => \A a \in Terminals : ~NoneFlattened(a) => NamedByPath(a)

-----------------------------------------------------------------------------
(* The list of a []string field *)

\* the trimmed pieces of v that are not blank, v being split by the pattern
Pieces(v) ==
    TrimmedNonBlank(IF opts.valueSplitPattern = {} THEN <<v>>
                    ELSE SplitOn(v, opts.valueSplitPattern, <<>>))

\* a []string field without override-value, after Fill
ListCase ==
    /\ pc = "filled"
    /\ root.shape = "one"
    /\ root.type = StringSliceT
    /\ ~OverrideValue(root.tag)

DefaultList ==
    IF HasDefault THEN parseStringSlice(root.tag["default"], opts.valueSplitPattern)
    ELSE root.inst

\* C10 as stated: the list is the default list followed by the trimmed
\* non-blank pieces of each text Set, in call order
C10_AppendsTrimmedPieces ==
    ListCase =>
        mem[ValueAddr] = DefaultList \o Flatten([i \in 1..Len(calls) |-> Pieces(calls[i].val)])

\* C10: the list is the default list followed by what each text Set adds,
\* in call order: its trimmed non-blank pieces when the split pattern is
\* not empty, the text itself as one element, untrimmed, when it is empty
C10_AppendsParts ==
    ListCase =>
        mem[ValueAddr] = DefaultList \o
            Flatten([i \in 1..Len(calls) |->
                       IF opts.valueSplitPattern = {} THEN <<calls[i].val>>
                       ELSE Pieces(calls[i].val)])

\* a list grown by two Sets, one of them through the alias, one of them of
\* a text with two pieces
C10_Witness ==
    /\ ListCase
    /\ Len(ArgCalls) = 2
    /\ ArgCalls[1].flag # ArgCalls[2].flag
    /\ opts.valueSplitPattern # {}
    /\ DefaultList # <<>>
    /\ Len(mem[ValueAddr]) >= Len(DefaultList) + 3

\* what one text Set adds to a list: its trimmed non-blank pieces, or the
\* text itself as one element when the split pattern is empty
Parts(v) == IF opts.valueSplitPattern = {} THEN <<v>> ELSE Pieces(v)

\* a []string field tagged override-value:"true", after Fill
OverrideCase ==
    /\ pc = "filled"
    /\ root.shape = "one"
    /\ root.type = StringSliceT
    /\ OverrideValue(root.tag)

-----------------------------------------------------------------------------
(* The map of a map[string]string field *)

\* the key=value pieces of a text, and the key and the value of a piece
PairsOf(val) == TrimmedNonBlank(SplitOn(val, {",", "\n"}, <<>>))
KeyOf(piece) == SubSeq(piece, 1, IndexAny(piece, {"="}))
ValueOf(piece) == SubSeq(piece, IndexAny(piece, {"="}) + 2, Len(piece))
NamedKeys(val) == {KeyOf(PairsOf(val)[i]) : i \in 1..Len(PairsOf(val))}

\* the value of the last piece of the text that names the key
LastValue(val, k) ==
    LET last == CHOOSE i \in 1..Len(PairsOf(val)) :
                    /\ KeyOf(PairsOf(val)[i]) = k
                    /\ \A j \in (i + 1)..Len(PairsOf(val)) : KeyOf(PairsOf(val)[j]) # k
    IN  ValueOf(PairsOf(val)[last])

\* a Set on the flag of a map[string]string field
MapSetStep ==
    /\ pc = "filled"
    /\ root.shape = "one"
    /\ root.type = StringMapT
    /\ calls' # calls

\* C12: a Set on a map[string]string field keeps every key the map had,
\* keeps the values of the keys its text does not name, and gives each key
\* it names the value of the key's last occurrence in the text
C12_SetAddsOrOverwrites ==
    [][MapSetStep =>
        LET val == calls'[Len(calls')].val
            old == mem[ValueAddr].kv
            new == mem'[ValueAddr].kv
        IN  /\ DOMAIN old \subseteq DOMAIN new
            /\ DOMAIN new = DOMAIN old \cup NamedKeys(val)
            /\ \A k \in DOMAIN old \ NamedKeys(val) : new[k] = old[k]
            /\ \A k \in NamedKeys(val) : new[k] = LastValue(val, k)]_vars

\* a map whose default names a key twice, after a Set that names one of its
\* keys again: the other key is kept and the named one has the new value
C12_Witness ==
    /\ pc = "filled"
    /\ root.shape = "one"
    /\ root.type = StringMapT
    /\ HasDefault
    /\ ArgCalls # <<>>
    /\ NamedKeys(LastArg.val) = {<<"k">>}
    /\ DOMAIN mem[ValueAddr].kv = {<<"k">>, <<"j">>}
    /\ mem[ValueAddr].kv[<<"k">>] = <<"v">>
    /\ NamedKeys(root.tag["default"]) = {<<"k">>, <<"j">>}
    /\ LastValue(root.tag["default"], <<"k">>) = <<"x">>

-----------------------------------------------------------------------------
(* Aliases *)

\* the names of the field Value: the primary name and the alias
ValueNames == {ValueName} \cup
              (IF "aliases" \in DOMAIN root.tag THEN {root.tag["aliases"]} ELSE {})

\* C13: on every dispatch path the primary name and the alias of a field
\* are flags bound to the same field, and after a Set through any of them
\* the value each of them reports is the value the field now holds
C13_AliasesShareValue ==
    (pc = "filled" /\ root.shape = "one" /\ root.type \in Handled
        /\ "aliases" \in DOMAIN root.tag /\ ArgCalls # <<>> /\ LastArg.ok)
        => \A n \in ValueNames :
              /\ n \in DOMAIN flagSet
              /\ flagSet[n].addr = ValueAddr
              /\ ValueString(flagSet[n], mem).field
              /\ ValueString(flagSet[n], mem).v = mem[ValueAddr]

-----------------------------------------------------------------------------
(* The argument of Fill *)

\* C14: handed anything but a pointer to a struct, Fill returns an error
\* that reports the kind it met, registers no flag, writes nothing and
\* does not crash
C14_NotStructPointerIsError ==
    (root.shape = "other" /\ pc # "idle")
        => /\ pc = "error"
           /\ err.kind = "fill"
           /\ root.member # "nil" => err = ErrFill(root.member)
           /\ DOMAIN flagSet = {}
           /\ calls = <<>>

-----------------------------------------------------------------------------
(* Pointers to structs *)

AllAlong(a, P(_)) ==
    \A i \in 1..Len(FieldsAlong("main.Config", a)) : P(FieldsAlong("main.Config", a)[i])
IsExportedField(f) == f.exported
IsWalkedField(f) == ~SkipsField(f.tag)

\* the pointer-to-struct fields that can be set and are not tagged flag:""
SettablePtrs ==
    {a \in Addrs : /\ TypeAt(a).kind = "ptr" /\ TypeAt(a).elem = "struct"
                   /\ AllAlong(a, IsExportedField) /\ AllAlong(a, IsWalkedField)}

\* the fields of the instance the pointer at a refers to
MembersOf(a) ==
    {b \in Addrs : Len(b) > Len(a) + 1 /\ SubSeq(b, 1, Len(a) + 1) = Append(a, 0)}

\* C15: after a successful Fill every settable pointer-to-struct field not
\* tagged flag:"" is non-nil; a pointer that was non-nil before still
\* refers to the same instance, whose field values, exported or not, are
\* the ones it had, the exported ones being the defaults of their flags
C15_PointersAllocatedOrKept ==
    (pc = "filled" /\ ArgCalls = <<>>)
        => \A a \in SettablePtrs :
              /\ mem[a] # 0
              /\ InitialValue(a) = 1
                    => /\ mem[a] = 1
                       /\ \A b \in MembersOf(a) :
                             /\ mem[b] = InitialValue(b)
                             /\ AllAlong(b, IsExportedField)
                                   => \E n \in DOMAIN flagSet :
                                         /\ flagSet[n].addr = b
                                         /\ flagSet[n].def = InitialValue(b)

\* Fill ended on a target whose pointer referred to an instance with its
\* fields set: the pointer is the same and the field's flag has its value
C15_Witness ==
    /\ pc = "filled" /\ ArgCalls = <<>>
    /\ root.shape = "nest" /\ root.ptr = 1
    /\ <<3>> \in SettablePtrs
    /\ mem[<<3>>] = 1
    /\ mem[<<3, 0, 1>>] = <<"i">> /\ mem[<<3, 0, 2>>] = <<"i">>
    /\ \E n \in DOMAIN flagSet : flagSet[n].addr = <<3, 0, 1>> /\ flagSet[n].def = <<"i">>

-----------------------------------------------------------------------------
(* The type tag *)

TypeTagged == pc = "filled" /\ root.shape = "one" /\ "type" \in DOMAIN root.tag
TypeTagValue == root.tag["type"][1]
ValueFlags == {n \in DOMAIN flagSet : flagSet[n].addr = ValueAddr}

ConverterPicked ==
    IF root.type.kind \in {"string", "bool", "float64"} THEN root.type.kind
    ELSE IF TypeTagValue = "duration" THEN "duration"
    ELSE IF root.type.kind \in {"int64", "int", "uint64", "uint"} THEN root.type.kind
    ELSE TypeTagValue

-----------------------------------------------------------------------------
(* The environment name of a field *)

\* the environment name the field Value is to have
EnvNameOfValue ==
    IF "env" \in DOMAIN root.tag THEN root.tag["env"]
    ELSE IF opts.envRenamer THEN <<"app", "_", "value">>
    ELSE <<>>

\* the environment name the field SomeField behind the pointer Ptr is to have
EnvNameBehindPtr ==
    IF opts.envRenamer THEN <<"app", "_", "ptr", "_", "some", "_", "field">> ELSE <<>>

AnyEnvCall == \E i \in 1..Len(calls) : calls[i].src = "env" /\ calls[i].flag = ValueName

\* C17: the environment name of a terminal field is its env tag when it has
\* one, whether or not WithEnv was given, else the environment renamers
\* applied to its path under WithEnv, else none; a field without
\* environment name, such as one tagged env:"", is not set from the
\* environment and its flag names no variable
C17_EnvNameResolution ==
    /\ (pc = "filled" /\ root.shape = "one")
          => /\ \A n \in ValueFlags : flagSet[n].envName = EnvNameOfValue
             /\ (EnvNameOfValue \in DOMAIN env /\ ~opts.noSetFromEnv
                   /\ ValueFlags # {} /\ root.type \in ScalarTypes) => AnyEnvCall
             /\ EnvNameOfValue = <<>>
                   => /\ ~AnyEnvCall
                      /\ \A n \in ValueFlags :
                            ArgCalls = <<>> => mem[ValueAddr] = flagSet[n].def
    /\ (pc = "filled" /\ root.shape = "nest" /\ root.fp = "none")
          => \E n \in DOMAIN flagSet :
                flagSet[n].addr = <<3, 0, 1>> /\ flagSet[n].envName = EnvNameBehindPtr

\* without WithEnv, a field tagged env:"server_address" was set from that
\* variable
C17_Witness ==
    /\ pc = "filled" /\ root.shape = "one" /\ ~opts.envRenamer
    /\ "env" \in DOMAIN root.tag /\ root.tag["env"] = <<"server", "_", "address">>
    /\ root.tag["env"] \in DOMAIN env
    /\ AnyEnvCall
    /\ \E n \in ValueFlags : flagSet[n].envName = <<"server", "_", "address">>

-----------------------------------------------------------------------------
(* NoSetFromEnv *)

HostTag == [default |-> <<"h">>]

\* what the processing of the fields Host and Value yields when no step
\* looks at the environment: the handlers alone, on the target as handed in
FillWithoutEnv ==
    The({The({IF sup.ok
              THEN processGeneral(sup.reg[root.type.name], h.flagSet, h.mem, sup.reg,
                                  <<>>, ValueAddr, root.type, HasDefault,
                                  TagGet(root.tag, "default"), ValueName, EnvNameOfValue,
                                  TagGet(root.tag, "aliases"), root.tag)
              ELSE Dispatch(h.flagSet, h.mem, sup.reg, <<>>, ValueAddr, root.type,
                            HasDefault, TagGet(root.tag, "default"), ValueName,
                            EnvNameOfValue, TagGet(root.tag, "aliases"), root.tag) :
                sup \in {isSupportedStruct(h.reg, root.type)}}) :
           h \in {Dispatch([n \in {} |-> 0], [a \in Addrs |-> InitialValue(a)],
                           extendedTypes, <<>>, <<1>>, StringT, TRUE, <<"h">>,
                           <<"host">>,
                           IF opts.envRenamer THEN <<"app", "_", "host">> ELSE <<>>,
                           <<>>, HostTag)}})

\* C18: with NoSetFromEnv, whatever the environment holds, Fill ends as it
\* does with no variable set: the same outcome, the same flags, the same
\* field values, no error from an environment value; the flag of a field
\* with an environment name still names the variable
C18_NoSetFromEnvIgnoresEnv ==
    (Ended /\ root.shape = "one" /\ opts.noSetFromEnv /\ ArgCalls = <<>>)
        => \E r \in {FillWithoutEnv} :
              /\ calls = <<>>
              /\ err.kind # "env"
              /\ (pc = "filled") = (r.out = "ok")
              /\ r.out # "ok" => (pc = r.out /\ err = r.err)
              /\ \A n \in DOMAIN r.flagSet :
                    n \in DOMAIN flagSet /\ flagSet[n] = r.flagSet[n]
              /\ ValueFlags = {n \in DOMAIN r.flagSet : r.flagSet[n].addr = ValueAddr}
              /\ mem[ValueAddr] = r.mem[ValueAddr]
              /\ mem[<<1>>] = r.mem[<<1>>]
              /\ \A n \in ValueFlags : flagSet[n].envName = EnvNameOfValue

\* with NoSetFromEnv and WithEnv, an int field whose variable holds a text
\* that is no number: Fill succeeded, the field has its default and the
\* flag names the variable
C18_Witness ==
    /\ pc = "filled" /\ root.shape = "one" /\ opts.noSetFromEnv /\ ArgCalls = <<>>
    /\ root.type = IntT /\ HasDefault
    /\ EnvNameOfValue \in DOMAIN env /\ env[EnvNameOfValue] = <<"x">>
    /\ mem[ValueAddr] = 7
    /\ \E n \in ValueFlags : flagSet[n].envName = <<"app", "_", "value">>

-----------------------------------------------------------------------------
(* An environment value that does not convert *)

\* the text converts to the type, as the flag of a field of the type takes it
Converts(t, text) ==
    IF t \in ScalarTypes
    THEN StdValueSet(IF t = DurationT THEN "duration" ELSE t.kind, text).ok
    ELSE Denotes(t, text)

BadEnvCase ==
    /\ Ended /\ root.shape = "one" /\ root.type \in Handled
    /\ "type" \notin DOMAIN root.tag \/ root.type \in {CustomDurationT, CustomStringSliceT, CustomStringMapT}
    /\ HasDefault => Denotes(root.type, root.tag["default"])
    /\ EnvApplies
    /\ ~Converts(root.type, env[ValueEnvName])

\* C19: when the environment value found for the second field does not
\* convert, Fill returns an error naming the variable; the field's flag is
\* registered with its default, the first field is done, and the third
\* field has neither been visited nor got a flag
C19_BadEnvFailsAtField ==
    BadEnvCase
        => /\ pc = "error"
           /\ err.kind = "env" /\ err.envName = ValueEnvName
           /\ ValueName \in DOMAIN flagSet
           /\ HasDefault => flagSet[ValueName].def = FillWithoutEnv.mem[ValueAddr]
           /\ <<"host">> \in DOMAIN flagSet /\ mem[<<1>>] = <<"h">>
           /\ \A n \in DOMAIN flagSet : flagSet[n].addr \in {<<1>>, ValueAddr}

-----------------------------------------------------------------------------
(* Named types over the supported types *)

NamedTypes == {MyStringT, MyBoolT, CustomIntT, CustomDurationT, CustomStringSliceT, CustomStringMapT}

\* the type a named type is declared over
Underlying(t) ==
    IF t = MyStringT THEN StringT
    ELSE IF t = MyBoolT THEN BoolT
    ELSE IF t = CustomIntT THEN IntT
    ELSE IF t = CustomDurationT THEN DurationT
    ELSE IF t = CustomStringSliceT THEN StringSliceT
    ELSE IF t = CustomStringMapT THEN StringMapT
    ELSE t

\* the field Host processed, on the target as handed in
AfterHost ==
    Dispatch([n \in {} |-> 0], [a \in Addrs |-> InitialValue(a)], extendedTypes,
             <<>>, <<1>>, StringT, TRUE, <<"h">>, <<"host">>,
             IF opts.envRenamer THEN <<"app", "_", "host">> ELSE <<>>, <<>>, HostTag)

\* the field Value processed as a field of the underlying type with the
\* same tag, instance value and environment
AsUnderlying ==
    The({processField(h.flagSet, h.mem, h.reg, <<>>, ValueAddr, <<"value">>,
                      Underlying(root.type), root.tag) : h \in {AfterHost}})

RECURSIVE SetAll(_, _, _)
\* the argument calls cs made on the flags fs of a target with the values
\* m: the values in the end and whether each call was accepted
SetAll(fs, u, cs) ==
    IF cs = <<>> THEN u
    ELSE The({SetAll(fs, [mem |-> v.mem, oks |-> Append(u.oks, v.ok)], Tail(cs)) :
                v \in {ValueSet(fs[Head(cs).flag], u.mem, Head(cs).val)}})

Accepted(cs) == [i \in 1..Len(cs) |-> cs[i].ok]

\* C20: a field of a named type over a supported type and a field of the
\* underlying type, given the same tags, instance value, environment and
\* argument values, are both filled or both not, accept and reject the
\* same argument values and hold the same value in the end
C20_NamedTypeLikeUnderlying ==
    (Ended /\ root.shape = "one" /\ root.type \in NamedTypes)
        => \E u \in {AsUnderlying} :
              /\ (pc = "filled") = (u.out = "ok")
              /\ pc = "filled"
                    => \E r \in {SetAll(u.flagSet, [mem |-> u.mem, oks |-> <<>>], ArgCalls)} :
                          /\ Accepted(ArgCalls) = r.oks
                          /\ mem[ValueAddr] = r.mem[ValueAddr]

-----------------------------------------------------------------------------
(* Two Fill calls on two targets of one struct type *)

RECURSIVE RunWalk(_, _)
\* the walk run to its end from the frames st and the result res so far
RunWalk(st, res) ==
    IF st = <<>> THEN res
    ELSE IF Head(st).idx > Len(StructFields(Head(st).tn)) THEN RunWalk(Tail(st), res)
    ELSE The({IF w.r.out # "ok" THEN w.r ELSE RunWalk(w.frames, w.r) :
                w \in {walkStep(st, res.flagSet, res.mem, res.reg, res.calls)}})

\* Fill on a fresh target of the struct type with the field values m0 and
\* an empty flag set, with the options and the environment as they are
FillOn(m0) ==
    RunWalk(<<Frame("main.Config", <<>>, <<>>, FALSE)>>,
            Res([n \in {} |-> 0], m0, extendedTypes, <<>>, "ok", ErrNone))

\* a target with every field zero and every pointer nil, and one with no
\* field zero and no pointer nil
ZeroTarget == [a \in Addrs |-> ZeroOf(TypeAt(a))]
SampleTarget ==
    [a \in Addrs |-> IF TypeAt(a).kind = "ptr" THEN 1 ELSE Sample(TypeAt(a))]

\* C21: the flag names Fill registers on a target are those it registers,
\* with the same options and environment, on any other fresh target of the
\* same struct type, whatever the field values and nil or not the pointers
C21_SameNamesOnEveryTarget ==
    (Ended /\ root.shape # "other" /\ ArgCalls = <<>>)
        => /\ \E z \in {FillOn(ZeroTarget)} : DOMAIN flagSet = DOMAIN z.flagSet
           /\ \E x \in {FillOn(SampleTarget)} : DOMAIN flagSet = DOMAIN x.flagSet

\* Fill ended on a target whose pointer was set and found the names, an
\* alias among them, that a target of zero values gets
C21_Witness ==
    /\ pc = "filled" /\ ArgCalls = <<>>
    /\ \/ root.shape = "nest" /\ root.ptr = 1
       \/ root.shape = "one" /\ root.inst # ZeroOf(root.type)
                             /\ <<"alt">> \in DOMAIN flagSet
    /\ Cardinality(DOMAIN flagSet) >= 3
    /\ DOMAIN flagSet = DOMAIN FillOn(ZeroTarget).flagSet

-----------------------------------------------------------------------------
(* Fields of registered types *)

\* the field is of a type with a registry entry or with text unmarshaling
RegisteredCase ==
    /\ pc = "filled"
    /\ root.shape \in {"one", "regptr"}
    /\ root.type.name \in DOMAIN InitialRegistry \cup TextUnmarshalers

\* where the value of the field is, and the names its flags are to have
RegisteredAddr == IF root.shape = "regptr" THEN <<2, 0>> ELSE ValueAddr
RegisteredNames ==
    {IF root.shape = "regptr" THEN <<"net">> ELSE <<"value">>}
    \cup (IF "aliases" \in DOMAIN root.tag THEN {root.tag["aliases"]} ELSE {})

\* C22: a field of a type with a registry entry or with text unmarshaling,
\* a struct or a pointer to a struct too, gets one flag and one per alias,
\* none of its members gets a flag, and the flag is the one of the
\* registry's handler, never that of the rule for the type's kind
C22_RegisteredIsTerminal ==
    RegisteredCase
        => /\ {n \in DOMAIN flagSet : flagSet[n].addr = RegisteredAddr} = RegisteredNames
           /\ DOMAIN flagSet = RegisteredNames \cup {<<"host">>, <<"tail", "-", "last">>}
           /\ root.type.name \in DOMAIN extendedTypes
           /\ \A n \in RegisteredNames :
                 /\ flagSet[n].vk = extendedTypes[root.type.name]
                 /\ flagSet[n].vk \in {"simpleType", "textUnmarshalerType"}
                 /\ flagSet[n].conv = root.type.name

\* a pointer to a net.IPNet, nil before Fill: one flag and its alias, none
\* for the members IP and Mask
C22_Witness ==
    /\ RegisteredCase
    /\ root.shape = "regptr" /\ root.ptr = 0 /\ "aliases" \in DOMAIN root.tag
    /\ mem[<<2>>] = 2
    /\ DOMAIN flagSet = {<<"host">>, <<"net">>, <<"alt">>, <<"tail", "-", "last">>}
    /\ flagSet[<<"net">>].vk = "simpleType"

-----------------------------------------------------------------------------
(* The registry over registrations and Fill *)

EntriesStay == \A n \in DOMAIN extendedTypes : n \in DOMAIN extendedTypes'
HandlersStay ==
    \A n \in DOMAIN extendedTypes :
       n \in DOMAIN extendedTypes' /\ extendedTypes'[n] = extendedTypes[n]

\* C23: over explicit registrations and Fill the registry loses no entry
\* and the handler of a type that has an entry stays the one it is
C23_HandlerNeverChanges == [][HandlersStay]_vars

\* the flags a step registers with a handler of the registry have the
\* handler their type had before the step, if it had one, and has after it
NewFlagsUseEntry ==
    \A n \in DOMAIN flagSet' \ DOMAIN flagSet :
       flagSet'[n].vk \in {"simpleType", "textUnmarshalerType"}
          => /\ flagSet'[n].conv \in DOMAIN extendedTypes'
             /\ flagSet'[n].vk = extendedTypes'[flagSet'[n].conv]
             /\ flagSet'[n].conv \in DOMAIN extendedTypes
                   => flagSet'[n].vk = extendedTypes[flagSet'[n].conv]

\* C23, amended: the registry loses no entry; a step of Fill inserts an
\* entry only for a type that has none and replaces no handler, and
\* registers a field's flag with the handler of its type's entry; only an
\* explicit registration replaces the handler of a type that has an entry
C23_FillNeverReplaces ==
    [][/\ EntriesStay
       /\ pc # "idle" => HandlersStay
       /\ NewFlagsUseEntry]_vars

\* a converter registered by the program for netip.Addr, which unmarshals
\* text, is the handler of the field's flag after Fill
C23_Witness ==
    /\ pc = "filled" /\ root.shape = "one" /\ root.type = AddrT
    /\ "netip.Addr" \in DOMAIN extendedTypes
    /\ extendedTypes["netip.Addr"] = "simpleType"
    /\ ValueName \in DOMAIN flagSet /\ flagSet[ValueName].vk = "simpleType"

-----------------------------------------------------------------------------
(* A struct type that contains a pointer to itself *)

\* C24: Fill returns, with success or an error, on a target whose struct
\* type contains a pointer to its own type, nil or not: the walk never gets
\* deeper than the stack allows
C24_FillReturns ==
    root.shape = "self" => ~(pc = "panic" /\ err.kind = "stack")

-----------------------------------------------------------------------------
(* Concurrent Fill calls *)

\* the flags a Fill call registers for the field types ts when it runs alone
Sequential(ts) ==
    [i \in 1..Len(ts) |->
       [type |-> ts[i].name,
        vk |-> IF ts[i].name \in DOMAIN InitialRegistry THEN InitialRegistry[ts[i].name]
               ELSE IF ts[i].name \in TextUnmarshalers THEN "textUnmarshalerType"
               ELSE ts[i].kind]]

BothDone == \A p \in Procs : conc.pos[p] = "done"

\* C25: two Fill calls running concurrently on their own targets and flag
\* sets do not interfere: neither ends the process, each registers the
\* flags it registers when running alone, and a type both discover has one
\* entry in the registry in the end
C25_ConcurrentFillsIndependent ==
    conc # NoConc
        => /\ \A p \in Procs : conc.pos[p] # "fatal"
           /\ \A p \in Procs :
                 conc.pos[p] = "done" => conc.flags[p] = Sequential(conc.target[p])
           /\ BothDone
                 => /\ DOMAIN extendedTypes = DOMAIN InitialRegistry \cup {"netip.Addr"}
                    /\ extendedTypes["netip.Addr"] = "textUnmarshalerType"

-----------------------------------------------------------------------------
(* The default tag and the value the target came with *)

\* Fill has returned on the shape "one", the field Value has its flag and
\* nothing was Set on it, from the environment or an argument
DefaultCase ==
    /\ pc = "filled" /\ root.shape = "one" /\ calls = <<>>
    /\ ValueName \in DOMAIN flagSet
    /\ "type" \in DOMAIN root.tag => root.tag = Merge(TypeHint(root.type), root.tag)
    /\ HasDefault => Denotes(root.type, root.tag["default"])

\* the value the default tag denotes
TagValue ==
    IF root.type.name \in DOMAIN extendedTypes
        THEN Converter(root.type.name, root.tag["default"], root.tag).v
    ELSE IF root.type.kind = "slice"
        THEN parseStringSlice(root.tag["default"], opts.valueSplitPattern)
    ELSE IF root.type.kind = "map" THEN MapOf(parseStringToStringMap(root.tag["default"]))
    ELSE IF root.type.kind \in {"uint", "uint64"}
        THEN ToUint(ParseUint10(root.tag["default"]).v)
    ELSE Converter(IF root.type \in {DurationT, CustomDurationT} THEN "duration"
                   ELSE root.type.kind,
                   root.tag["default"], root.tag).v

\* what the field is to hold and its flags are to declare as default
DefaultOrInstance == IF HasDefault THEN TagValue ELSE root.inst

\* the value v is the value w; of two maps, that they hold the same pairs
SameValue(v, w) == IF root.type.kind = "map" THEN v.kv = w.kv ELSE v = w

\* the default the flag n declares: what its Value printed when registered
Declared(n) == ValueString(flagSet[n], [a \in {ValueAddr} |-> flagSet[n].def])

\* C26: after Fill a field with a default tag holds the value the tag
\* denotes, nothing of the value it came with, and a field without one
\* holds the value it came with; the field's flags declare that value as
\* their default, on every dispatch path
C26_DefaultReplacesInstance ==
    DefaultCase
        => /\ SameValue(mem[ValueAddr], DefaultOrInstance)
           /\ \A n \in ValueFlags :
                 Declared(n).field /\ SameValue(Declared(n).v, DefaultOrInstance)

-----------------------------------------------------------------------------
(* The default tag of a uint field *)

\* Fill has ended on a uint field with a default tag
UintDefaultCase ==
    /\ Ended /\ root.shape = "one" /\ root.type = UintT
    /\ HasDefault /\ "type" \notin DOMAIN root.tag

\* C27: the default tag of a uint field is accepted exactly when it denotes
\* an integer in the range of uint, which is then the flag's default; any
\* other default, a negative number among them, makes Fill return the
\* error of a default that does not convert; the flag takes the same text
\* as an argument, with the same value, and no other
C27_UintDefaultInRange ==
    UintDefaultCase
        => /\ IF ParseUint10(root.tag["default"]).ok
              THEN /\ ValueName \in DOMAIN flagSet
                   /\ flagSet[ValueName].def = ToUint(ParseUint10(root.tag["default"]).v)
              ELSE pc = "error" /\ err.kind = "default"
           /\ StdValueSet("uint", root.tag["default"]).ok
                 <=> ValueName \in DOMAIN flagSet
           /\ ValueName \in DOMAIN flagSet
                 => flagSet[ValueName].def = StdValueSet("uint", root.tag["default"]).v

-----------------------------------------------------------------------------
(* The map of a map[string]string field and the map its flags write *)

\* Fill has returned on a map[string]string field; a Set may have crashed
MapCase ==
    /\ root.shape = "one" /\ root.type = StringMapT
    /\ pc = "filled" \/ (pc = "panic" /\ err = ErrNone)

\* the entries of the text are in the field's map
Visible(val) ==
    \A k \in DOMAIN parseStringToStringMap(val) :
       /\ k \in DOMAIN mem[ValueAddr].kv
       /\ mem[ValueAddr].kv[k] = parseStringToStringMap(val)[k]

-----------------------------------------------------------------------------
(* The field whose default tag does not convert *)

\* C29: when Fill returns the error of a default tag that does not
\* convert, the field of that tag holds the value it had before Fill, on
\* every dispatch path
C29_FailedDefaultKeepsField ==
    (pc = "error" /\ err.kind = "default" /\ root.shape = "one")
        => /\ err.addr = ValueAddr
           /\ mem[ValueAddr] = root.inst

-----------------------------------------------------------------------------
(* Two fields whose flag names are the same *)

\* C30: on an empty flag set no Fill registers a name twice: the names,
\* overrides and aliases of the terminal fields differ from each other,
\* and Fill never ends in the flag set's failure on a name already defined
C30_NoNameTwice ==
    ~(pc = "panic" /\ err = ErrFrom("redefined"))

====
